---- MODULE Spec2Model ----
(***************************************************************************)
(* Keyspace, expiration index and expire worker of the feredis server      *)
(* (server/src/main.rs, expire.rs).  Strings are sequences of one-char     *)
(* strings, Instants are natural numbers of seconds.                       *)
(***************************************************************************)
EXTENDS Integers, Sequences, FiniteSets, Bags, TLC

\* ---------------------------------------------------------------- bounds
MaxTag == 2        \* tags handed out by the tag counter
MaxTime == 2       \* the clock stops advancing here
MaxHeap == 2       \* records held by the expiration heap
MaxList == 1       \* elements of a stored list

\* ---------------------------------------------------------------- inputs
Keys == {<<"a">>, <<"b">>}
Vals == {<<"v">>, <<"w">>}
Never == -1        \* Timer::never()
NoTag == -1        \* "no tag" in the history variables
NoTime == -1       \* "no deadline" in the history variables

\* ---------------------------------------------------------------- RedisItem
SimpleString(s) == [type |-> "SimpleString", str |-> s, int |-> 0, arr |-> <<>>]
SimpleError(s) == [type |-> "SimpleError", str |-> s, int |-> 0, arr |-> <<>>]
Integer(n) == [type |-> "Integer", str |-> <<>>, int |-> n, arr |-> <<>>]
BulkString(s) == [type |-> "BulkString", str |-> s, int |-> 0, arr |-> <<>>]
Array(a) == [type |-> "Array", str |-> <<>>, int |-> 0, arr |-> a]
Null == [type |-> "Null", str |-> <<>>, int |-> 0, arr |-> <<>>]

\* the texts of the replies, named instead of spelled out
OK == <<"O", "K">>
PONG == <<"P", "O", "N", "G">>
InvalidArguments == <<"invalid arguments">>
WrongType == <<"WRONGTYPE">>
NotAString == <<"value is not a string">>
NoSuchKey == <<"no such key">>

\* str::parse::<u64> / str::parse::<usize>: an optional '+', then one or
\* more decimal digits, the value at most u64::MAX; -1 stands for Err
Digits == <<"0", "1", "2", "3", "4", "5", "6", "7", "8", "9">>
DigitVal(c) == (CHOOSE i \in 1..10 : Digits[i] = c) - 1
IsDigit(c) == \E i \in 1..10 : Digits[i] = c
RECURSIVE DecVal(_)
DecVal(s) ==
    IF s = <<>> THEN 0
    ELSE 10 * DecVal(SubSeq(s, 1, Len(s) - 1)) + DigitVal(s[Len(s)])
RECURSIVE StripZeros(_)
StripZeros(s) == IF s # <<>> /\ s[1] = "0" THEN StripZeros(Tail(s)) ELSE s
U64Max == <<"1", "8", "4", "4", "6", "7", "4", "4", "0", "7", "3", "7", "0", "9",
            "5", "5", "1", "6", "1", "5">>
\* s > t for digit strings of the same length
RECURSIVE DecGreater(_, _)
DecGreater(s, t) ==
    IF s = <<>> THEN FALSE
    ELSE IF s[1] # t[1] THEN DigitVal(s[1]) > DigitVal(t[1])
    ELSE DecGreater(Tail(s), Tail(t))
OverflowsU64(s) ==
    LET z == StripZeros(s)
    IN  Len(z) > Len(U64Max) \/ (Len(z) = Len(U64Max) /\ DecGreater(z, U64Max))
Unsigned(s) == IF s # <<>> /\ s[1] = "+" THEN Tail(s) ELSE s
ParsesU64(s) ==
    LET body == Unsigned(s)
    IN  /\ body # <<>>
        /\ \A i \in 1..Len(body) : IsDigit(body[i])
        /\ ~OverflowsU64(body)
\* a value of 10^9 or more is read as 10^9, beyond every instant of the model
FarSecs == 1000000000
ParseU64(s) ==
    IF ~ParsesU64(s) THEN -1
    ELSE IF Len(StripZeros(Unsigned(s))) > 9 THEN FarSecs
    ELSE DecVal(Unsigned(s))

\* Instant + Duration::from_secs(secs): the seconds of an Instant are an i64,
\* and the addition panics when the sum does not fit; t is the instant's
\* seconds (below 8), s the digits of secs
I64Max == <<"9", "2", "2", "3", "3", "7", "2", "0", "3", "6", "8", "5", "4", "7",
            "7", "5", "8", "0", "7">>
InstantAddOverflows(t, s) ==
    LET z == StripZeros(Unsigned(s))
        room == [I64Max EXCEPT ![Len(I64Max)] = Digits[8 - t]]
    IN  Len(z) > Len(room) \/ (Len(z) = Len(room) /\ DecGreater(z, room))

\* ---------------------------------------------------------------- RESP codec
Boolean(b) == [type |-> "Boolean", str |-> <<>>, int |-> IF b THEN 1 ELSE 0, arr |-> <<>>]

CR == "\r"
LF == "\n"
CRLF == <<CR, LF>>

\* i64::to_string, usize::to_string
RECURSIVE NatStr(_)
NatStr(n) ==
    IF n < 10 THEN <<Digits[n + 1]>>
    ELSE NatStr(n \div 10) \o <<Digits[(n % 10) + 1]>>
IntStr(n) == IF n < 0 THEN <<"-">> \o NatStr(-n) ELSE NatStr(n)

RECURSIVE Flatten(_)
Flatten(ss) == IF ss = <<>> THEN <<>> ELSE Head(ss) \o Flatten(Tail(ss))

\* RedisItem::serialize: the bytes appended to the target
RECURSIVE serialize(_)
serialize(v) ==
    CASE v.type = "SimpleString" -> <<"+">> \o v.str \o CRLF
      [] v.type = "SimpleError" -> <<"-">> \o v.str \o CRLF
      [] v.type = "Integer" -> <<":">> \o IntStr(v.int) \o CRLF
      [] v.type = "BulkString" ->
            <<"$">> \o NatStr(Len(v.str)) \o CRLF \o v.str \o CRLF
      [] v.type = "Array" ->
            <<"*">> \o NatStr(Len(v.arr)) \o CRLF
                \o Flatten([i \in 1..Len(v.arr) |-> serialize(v.arr[i])])
      [] v.type = "Null" -> <<"_">> \o CRLF
      [] v.type = "Boolean" -> <<"#", IF v.int = 1 THEN "t" ELSE "f">> \o CRLF

\* The byte stream behind a reader: the chunks still to arrive, one per
\* fill_buf, and what follows the last chunk: "eof" (the peer closed),
\* "error" (the read fails) or "idle" (nothing more arrives, the read stays
\* pending).  eof records that a read has reported end of stream.
Stream(chunks, end) == [chunks |-> chunks, end |-> end, eof |-> FALSE]
Ends == {"eof", "error", "idle"}

Find(c, b) ==
    IF \E i \in 1..Len(c) : c[i] = b
    THEN CHOOSE i \in 1..Len(c) : c[i] = b /\ \A j \in 1..(i - 1) : c[j] # b
    ELSE 0

\* a read that returns with what one fill_buf delivered
read_once(s, buffer) ==
    IF s.chunks = <<>>
    THEN [buffer |-> buffer,
          stream |-> [s EXCEPT !.eof = @ \/ s.end = "eof"],
          st |-> CASE s.end = "eof" -> "ok"
                   [] s.end = "error" -> "error"
                   [] s.end = "idle" -> "pending"]
    ELSE LET c == Head(s.chunks)
             i == IF Find(c, LF) = 0 THEN Len(c) ELSE Find(c, LF)
         IN  [buffer |-> buffer \o SubSeq(c, 1, i),
              stream |-> [s EXCEPT !.chunks =
                             IF i = Len(c) THEN Tail(@)
                             ELSE <<SubSeq(c, i + 1, Len(c))>> \o Tail(@)],
              st |-> "ok"]

\* stream.read_until(b'\n', buffer) on an empty buffer: buffer afterwards,
\* the stream afterwards, and how the read ended: "ok" (delimiter or end of
\* stream), "error", "pending"
RECURSIVE read_until(_, _)
read_until(s, buffer) ==
    IF s.chunks = <<>>
    THEN [buffer |-> buffer,
          stream |-> [s EXCEPT !.eof = @ \/ s.end = "eof"],
          st |-> CASE s.end = "eof" -> "ok"
                   [] s.end = "error" -> "error"
                   [] s.end = "idle" -> "pending"]
    ELSE LET c == Head(s.chunks)
             i == Find(c, LF)
         IN  IF i = 0
             THEN read_until([s EXCEPT !.chunks = Tail(@)], buffer \o c)
             ELSE [buffer |-> buffer \o SubSeq(c, 1, i),
                   stream |-> [s EXCEPT !.chunks =
                                  IF i = Len(c) THEN Tail(@)
                                  ELSE <<SubSeq(c, i + 1, Len(c))>> \o Tail(@)],
                   st |-> "ok"]

\* str::parse::<i64>: an optional sign, one or more digits, within the range
I64MinMag == [I64Max EXCEPT ![Len(I64Max)] = "8"]
U32Max == <<"4", "2", "9", "4", "9", "6", "7", "2", "9", "5">>
DecAtMost(s, max) ==
    LET z == StripZeros(s)
    IN  Len(z) < Len(max) \/ (Len(z) = Len(max) /\ ~DecGreater(z, max))
AllDigits(s) == s # <<>> /\ \A i \in 1..Len(s) : IsDigit(s[i])
Negative(s) == s # <<>> /\ s[1] = "-"
ParsesI64(s) ==
    IF Negative(s) THEN AllDigits(Tail(s)) /\ DecAtMost(Tail(s), I64MinMag)
    ELSE AllDigits(Unsigned(s)) /\ DecAtMost(Unsigned(s), I64Max)
\* a magnitude of 10^9 or more is read as 10^9
Magnitude(s) == IF Len(StripZeros(s)) > 9 THEN FarSecs ELSE DecVal(s)
ParseI64(s) == IF Negative(s) THEN 0 - Magnitude(Tail(s)) ELSE Magnitude(Unsigned(s))
ParsesU32(s) == AllDigits(Unsigned(s)) /\ DecAtMost(Unsigned(s), U32Max)
ParseU32(s) == Magnitude(Unsigned(s))

\* ParseState::List
List(remaining, its) == [remaining |-> remaining, items |-> its]

\* the outcomes of parse_partial and parse: Ok(Complete(item)),
\* Ok(Partial(List)), Err(Incomplete | Invalid | IoError), and Pending for
\* a read that never returns
Outcome(kind, item, len, buffer, stream) ==
    [kind |-> kind, item |-> item, len |-> len, buffer |-> buffer, stream |-> stream]
Failed(r, cause) ==
    Outcome(IF r.st = "error" THEN "IoError" ELSE IF r.st = "pending" THEN "Pending"
            ELSE cause, Null, 0, r.buffer, r.stream)
Complete(r, item) == Outcome("Complete", item, 0, r.buffer, r.stream)

\* ItemParser::parse_partial
parse_partial(stream) ==
    LET r0 == read_until(stream, <<>>)
        b == r0.buffer
        read0 == Len(b)
    IN  IF r0.st # "ok" THEN Failed(r0, "")
        ELSE IF read0 < 3 THEN Failed(r0, "Incomplete")
        ELSE CASE b[1] = "_" -> Complete(r0, Null)
               [] b[1] = "#" ->
                    IF b[2] = "t" THEN Complete(r0, Boolean(TRUE))
                    ELSE IF b[2] = "f" THEN Complete(r0, Boolean(FALSE))
                    ELSE Failed(r0, "Invalid")
               [] b[1] = "$" ->
                    LET r1 == read_until(r0.stream, <<>>)
                        read1 == Len(r1.buffer)
                    IN  IF r1.st # "ok" THEN Failed(r1, "")
                        ELSE IF read1 < 2 THEN Failed(r1, "Incomplete")
                        ELSE Complete(r1, BulkString(SubSeq(r1.buffer, 1, read1 - 2)))
               [] b[1] \in {"-", "+", ":"} ->
                    LET str == SubSeq(b, 2, read0 - 2)
                    IN  IF b[1] = "+" THEN Complete(r0, SimpleString(str))
                        ELSE IF b[1] = "-" THEN Complete(r0, SimpleError(str))
                        ELSE IF ParsesI64(str) THEN Complete(r0, Integer(ParseI64(str)))
                        ELSE Failed(r0, "Invalid")
               [] b[1] = "*" ->
                    LET str == SubSeq(b, 2, read0 - 2)
                    IN  IF ParsesU32(str)
                        THEN Outcome("Partial", Null, ParseU32(str), r0.buffer, r0.stream)
                        ELSE Failed(r0, "Invalid")
               [] OTHER -> Failed(r0, "Invalid")

\* ItemParser: its line buffer and its stack of open arrays
Parser(buffer, stack) == [buffer |-> buffer, stack |-> stack]
ItemParserNew == Parser(<<>>, <<>>)

\* a call of parse under way or returned: kind is "Running", "Ok" (with the
\* item), an error, or "Pending"
Run(kind, item, buffer, stack, stream) ==
    [kind |-> kind, item |-> item, parser |-> Parser(buffer, stack), stream |-> stream]

Front(s) == SubSeq(s, 1, Len(s) - 1)
Last(s) == s[Len(s)]

\* ItemParser::parse up to the loop: buffer.clear(), stack.clear() and the
\* first parse_partial
parse_begin(p, stream) ==
    LET cleared == Parser(<<>>, <<>>)
        r == parse_partial(stream)
    IN  CASE r.kind = "Complete" ->
                Run("Ok", r.item, r.buffer, cleared.stack, r.stream)
          [] r.kind = "Partial" ->
                Run("Running", Null, r.buffer,
                    Append(cleared.stack, List(r.len, <<>>)), r.stream)
          [] OTHER -> Run(r.kind, Null, r.buffer, cleared.stack, r.stream)

\* the arm (Complete(value), List {remaining, items}) of the loop's match
Collect(value, state, stack, buffer, stream) ==
    IF state.remaining = 0 THEN Run("Invalid", Null, buffer, stack, stream)
    ELSE Run("Running", Null, buffer,
             Append(stack, List(state.remaining - 1, Append(state.items, value))),
             stream)

\* ItemParser::parse: one iteration of the loop over the stack
parse_iter(p, stream) ==
    IF p.stack = <<>> THEN Run("Incomplete", Null, p.buffer, <<>>, stream)
    ELSE LET state == Last(p.stack)
             rest == Front(p.stack)
         IN  IF state.remaining = 0
             THEN IF rest = <<>>
                  THEN Run("Ok", Array(state.items), p.buffer, <<>>, stream)
                  ELSE Collect(Array(state.items), Last(rest), Front(rest),
                               p.buffer, stream)
             ELSE LET r == parse_partial(stream)
                  IN  CASE r.kind = "Partial" ->
                             Run("Running", Null, r.buffer,
                                 Append(Append(rest, state), List(r.len, <<>>)),
                                 r.stream)
                        [] r.kind = "Complete" ->
                             Collect(r.item, state, rest, r.buffer, r.stream)
                        [] OTHER -> Run(r.kind, Null, r.buffer, rest, r.stream)

\* ItemParser::parse, run until it returns
RECURSIVE parse_loop(_)
parse_loop(run) ==
    IF run.kind # "Running" THEN run
    ELSE parse_loop(parse_iter(run.parser, run.stream))
parse(p, stream) == parse_loop(parse_begin(p, stream))

\* ---------------------------------------------------------------- state
VARIABLES
    items,        \* State.items: key -> [val, tag], defined on the present keys
    tag_counter,  \* State.tag_counter
    stop,         \* State.stop
    expire,       \* State.expire: [items (the heap, a bag), expiries, waker, updated]
    now,          \* Instant::now()
    wpc,          \* expire worker: "init" (spawned), "waiting" (in the or-await), "done"
    timer,        \* deadline of the Timer the worker waits on, or Never
    woken,        \* the worker's task was woken through its Waker
    panicked,     \* a handler panicked: the process is gone
    hist,         \* history: per live tag, how the incarnation began and its last EXPIRE
    lastDrain,    \* history: records popped by the last step, if it was a worker wakeup
    conn,         \* connection workers: [pc, cmd, args, tmp], the handler's position
    run,          \* the task the executor is polling, or NoTask
    seq,          \* history: State as whole handlers and whole drains leave it
    reader,       \* connection_worker: the byte stream behind its BufReader
    parser,       \* connection_worker: its ItemParser [buffer, stack]
    ret,          \* the call of parse under way or last returned: [kind, item]
    out_buffer,   \* connection_worker: the serialized reply
    sent,         \* bytes of out_buffer that write_all has written
    writer,       \* the bytes written to the peer so far
    lpc,          \* connection_worker: "parse", "write" or "exit"; "off" when not modelled
    frames,       \* history: per returned parse, its outcome and the reply built for it
    given         \* history: the input as handed to the reader

\* the variables of one connection at the byte level
wire == <<reader, parser, ret, out_buffer, sent, writer, lpc, frames, given>>

vars == <<items, tag_counter, stop, expire, now, wpc, timer, woken,
          panicked, hist, lastDrain, conn, run, seq,
          reader, parser, ret, out_buffer, sent, writer, lpc, frames, given>>

\* ---------------------------------------------------------------- HashMap
Remove(m, k) == [x \in DOMAIN m \ {k} |-> m[x]]
Insert(m, k, v) == [x \in DOMAIN m \cup {k} |-> IF x = k THEN v ELSE m[x]]
NoMap == [x \in {} |-> 0]

\* ---------------------------------------------------------------- Expire
Expiry(key, id, time) == [key |-> key, id |-> id, time |-> time]

\* a heap without the Reverse: a record of greatest time
peek_latest(h) ==
    CHOOSE r \in BagToSet(h) : \A q \in BagToSet(h) : r.time >= q.time

\* BinaryHeap<Reverse<Expiry>>::peek, Ord for Expiry: a record of least time
peek(h) ==
    CHOOSE r \in BagToSet(h) : \A q \in BagToSet(h) : r.time <= q.time

ExpireNew ==
    [items |-> EmptyBag, expiries |-> NoMap, waker |-> FALSE, updated |-> FALSE]

get_expiry(e, id) == IF id \in DOMAIN e.expiries THEN e.expiries[id] ELSE NoTime
HasExpiry(e, id) == id \in DOMAIN e.expiries

\* a push that wakes the worker only when the heap was empty
PushWakesOnEmpty(e, time) == BagToSet(e.items) = {}

\* a push that wakes the worker for an equal deadline as well
PushWakesOnEqual(e, time) ==
    IF BagToSet(e.items) = {} THEN TRUE ELSE peek(e.items).time >= time

\* Expire::push: the wake condition
PushWakes(e, time) ==
    IF BagToSet(e.items) = {} THEN TRUE ELSE peek(e.items).time > time

\* Expire::push: the Expire afterwards
push(e, key, id, time) ==
    [items |-> e.items (+) SetToBag({Expiry(key, id, time)}),
     expiries |-> Insert(e.expiries, id, time),
     waker |-> IF PushWakes(e, time) THEN FALSE ELSE e.waker,
     updated |-> IF PushWakes(e, time) THEN TRUE ELSE e.updated]

\* Expire::push: whether it invoked the stored waker
PushWoke(e, time) == PushWakes(e, time) /\ e.waker

\* Expire::try_pop: is there a record to pop at instant t
CanPop(e, t) == BagToSet(e.items) # {} /\ peek(e.items).time <= t

try_pop(e) ==
    LET ex == peek(e.items)
    IN  [e EXCEPT !.items = e.items (-) SetToBag({ex}),
                  !.expiries = Remove(e.expiries, ex.id)]

\* ---------------------------------------------------------------- handlers
\* What a handler leaves behind: its reply, the fields of State it wrote,
\* whether push invoked the worker's waker, whether an assertion failed.
Result(r, its, tc, e, wk, pn, h) ==
    [reply |-> r, items |-> its, tag_counter |-> tc, expire |-> e,
     woke |-> wk, panic |-> pn, hist |-> h]
Same(r) == Result(r, items, tag_counter, expire, FALSE, FALSE, hist)

IsBulk(args, i) == Len(args) >= i /\ args[i].type = "BulkString"
Present(k) == k \in DOMAIN items

\* history record of a tag: the command that began the incarnation, whether
\* the key had a pending expiry at that moment, the deadline of the last
\* EXPIRE applied to the tag, and for RENAME: the names the entry was renamed
\* away from while its expiry was pending, and whether a RENAME put it over
\* another entry that had a pending expiry
Born(cmd, pend, ttl) ==
    [cmd |-> cmd, pend |-> pend, ttl |-> ttl, ren |-> {}, over |-> FALSE]
Renamed(h, key, wasPending, overPending) ==
    [h EXCEPT !.ren = IF wasPending THEN h.ren \cup {key} ELSE h.ren,
              !.over = h.over \/ overPending]
OldPending(k) == Present(k) /\ HasExpiry(expire, items[k].tag)

do_ping(args) ==
    IF IsBulk(args, 1) THEN Same(BulkString(args[1].str))
    ELSE Same(SimpleString(PONG))

\* do_set that leaves an existing key its tag
do_set_keeps_tag(args) ==
    IF ~IsBulk(args, 1) THEN Same(SimpleError(InvalidArguments))
    ELSE IF ~IsBulk(args, 2) THEN Same(SimpleError(InvalidArguments))
    ELSE LET key == args[1].str
             tag == IF Present(key) THEN items[key].tag ELSE tag_counter
         IN  Result(SimpleString(OK),
                    Insert(items, key, [val |-> args[2], tag |-> tag]),
                    tag_counter + 1, expire, FALSE, FALSE,
                    Insert(hist, tag, Born("SET", OldPending(key), NoTime)))

do_set(args) ==
    IF ~IsBulk(args, 1) THEN Same(SimpleError(InvalidArguments))
    ELSE IF ~IsBulk(args, 2) THEN Same(SimpleError(InvalidArguments))
    ELSE LET key == args[1].str
             tag == tag_counter
         IN  Result(SimpleString(OK),
                    Insert(items, key, [val |-> args[2], tag |-> tag]),
                    tag_counter + 1, expire, FALSE, FALSE,
                    Insert(hist, tag, Born("SET", OldPending(key), NoTime)))

\* do_get that replies the string of whatever value the key holds
do_get_any_type(args) ==
    IF ~IsBulk(args, 1) THEN Same(SimpleError(InvalidArguments))
    ELSE LET key == args[1].str
         IN  IF ~Present(key) THEN Same(Null)
             ELSE Same(BulkString(items[key].val.str))

\* do_get that hides a key whose deadline has passed
do_get_hides_due(args) ==
    IF ~IsBulk(args, 1) THEN Same(SimpleError(InvalidArguments))
    ELSE LET key == args[1].str
         IN  IF ~Present(key) THEN Same(Null)
             ELSE IF get_expiry(expire, items[key].tag) # NoTime
                     /\ get_expiry(expire, items[key].tag) <= now
                  THEN Same(Null)
             ELSE IF items[key].val.type = "BulkString"
                  THEN Same(BulkString(items[key].val.str))
             ELSE Same(SimpleError(NotAString))

do_get(args) ==
    IF ~IsBulk(args, 1) THEN Same(SimpleError(InvalidArguments))
    ELSE LET key == args[1].str
         IN  IF ~Present(key) THEN Same(Null)
             ELSE IF items[key].val.type = "BulkString"
                  THEN Same(BulkString(items[key].val.str))
             ELSE Same(SimpleError(NotAString))

\* a counter that counts every key named, present or not
RECURSIVE DelLoopCountsNamed(_, _, _)
DelLoopCountsNamed(args, its, counter) ==
    IF args = <<>> THEN [reply |-> Integer(counter), items |-> its]
    ELSE IF Head(args).type # "BulkString"
         THEN [reply |-> SimpleError(InvalidArguments), items |-> its]
    ELSE DelLoopCountsNamed(Tail(args), Remove(its, Head(args).str), counter + 1)

\* do_del: the while loop over the arguments
RECURSIVE DelLoop(_, _, _)
DelLoop(args, its, counter) ==
    IF args = <<>> THEN [reply |-> Integer(counter), items |-> its]
    ELSE IF Head(args).type # "BulkString"
         THEN [reply |-> SimpleError(InvalidArguments), items |-> its]
    ELSE IF Head(args).str \in DOMAIN its
         THEN DelLoop(Tail(args), Remove(its, Head(args).str), counter + 1)
    ELSE DelLoop(Tail(args), its, counter)

do_del(args) ==
    LET r == DelLoop(args, items, 0)
    IN  Result(r.reply, r.items, tag_counter, expire, FALSE, FALSE, hist)

\* do_expire that never refreshes the tag of a key with a pending expiry
do_expire_same_tag(args) ==
    IF ~IsBulk(args, 1) THEN Same(SimpleError(InvalidArguments))
    ELSE IF ~IsBulk(args, 2) THEN Same(SimpleError(InvalidArguments))
    ELSE IF ~ParsesU64(args[2].str) THEN Same(SimpleError(InvalidArguments))
    ELSE LET key == args[1].str
             time == now + ParseU64(args[2].str)
         IN  IF ~Present(key) THEN Same(Integer(0))
             ELSE IF InstantAddOverflows(now, args[2].str)
             THEN Result(Null, items, tag_counter, expire, FALSE, TRUE, hist)
             ELSE Result(Integer(1), items, tag_counter,
                         push(expire, key, items[key].tag, time),
                         PushWoke(expire, time), FALSE,
                         [hist EXCEPT ![items[key].tag].ttl = time])

do_expire(args) ==
    IF ~IsBulk(args, 1) THEN Same(SimpleError(InvalidArguments))
    ELSE IF ~IsBulk(args, 2) THEN Same(SimpleError(InvalidArguments))
    ELSE IF ~ParsesU64(args[2].str) THEN Same(SimpleError(InvalidArguments))
    ELSE LET key == args[1].str
             time == now + ParseU64(args[2].str)
         IN  IF ~Present(key) THEN Same(Integer(0))
             ELSE IF InstantAddOverflows(now, args[2].str)
             THEN Result(Null, items, tag_counter, expire, FALSE, TRUE, hist)
             ELSE LET tag == items[key].tag
                  IN  IF HasExpiry(expire, tag)
                      THEN Result(Integer(1),
                                  [items EXCEPT ![key].tag = tag_counter],
                                  tag_counter + 1,
                                  push(expire, key, tag_counter, time),
                                  PushWoke(expire, time), FALSE,
                                  Insert(hist, tag_counter,
                                         Born("EXPIRE", TRUE, time)))
                      ELSE Result(Integer(1), items, tag_counter,
                                  push(expire, key, tag, time),
                                  PushWoke(expire, time), FALSE,
                                  [hist EXCEPT ![tag].ttl = time])

\* do_persist that replies 1 without giving the key a new tag
do_persist_keeps_tag(args) ==
    IF ~IsBulk(args, 1) THEN Same(SimpleError(InvalidArguments))
    ELSE LET key == args[1].str
         IN  IF Present(key)
             THEN Result(Integer(1), items, tag_counter + 1, expire, FALSE, FALSE,
                         Insert(hist, items[key].tag,
                                Born("PERSIST", OldPending(key), NoTime)))
             ELSE Same(Integer(0))

\* do_persist that advances the tag counter also when the key is absent
do_persist_counts_absent(args) ==
    IF ~IsBulk(args, 1) THEN Same(SimpleError(InvalidArguments))
    ELSE LET key == args[1].str
         IN  IF Present(key)
             THEN Result(Integer(1),
                         [items EXCEPT ![key].tag = tag_counter],
                         tag_counter + 1, expire, FALSE, FALSE,
                         Insert(hist, tag_counter,
                                Born("PERSIST", OldPending(key), NoTime)))
             ELSE Result(Integer(0), items, tag_counter + 1, expire, FALSE, FALSE,
                         hist)

\* do_persist that takes the deadline of the old tag out of the map
do_persist_forgets(args) ==
    IF ~IsBulk(args, 1) THEN Same(SimpleError(InvalidArguments))
    ELSE LET key == args[1].str
         IN  IF Present(key)
             THEN Result(Integer(1),
                         [items EXCEPT ![key].tag = tag_counter],
                         tag_counter + 1,
                         [expire EXCEPT !.expiries = Remove(@, items[key].tag)],
                         FALSE, FALSE,
                         Insert(hist, tag_counter,
                                Born("PERSIST", OldPending(key), NoTime)))
             ELSE Same(Integer(0))

do_persist(args) ==
    IF ~IsBulk(args, 1) THEN Same(SimpleError(InvalidArguments))
    ELSE LET key == args[1].str
         IN  IF Present(key)
             THEN Result(Integer(1),
                         [items EXCEPT ![key].tag = tag_counter],
                         tag_counter + 1, expire, FALSE, FALSE,
                         Insert(hist, tag_counter,
                                Born("PERSIST", OldPending(key), NoTime)))
             ELSE Same(Integer(0))

\* do_rename that copies the entry and leaves the source in place
do_rename_copy(args) ==
    IF ~IsBulk(args, 1) THEN Same(SimpleError(InvalidArguments))
    ELSE IF ~IsBulk(args, 2) THEN Same(SimpleError(InvalidArguments))
    ELSE LET key == args[1].str
             new_key == args[2].str
         IN  IF Present(key)
             THEN LET tag == items[key].tag
                      exp == get_expiry(expire, tag)
                  IN  Result(SimpleString(OK),
                             Insert(items, new_key, items[key]),
                             tag_counter,
                             IF exp # NoTime THEN push(expire, new_key, tag, exp)
                             ELSE expire,
                             exp # NoTime /\ PushWoke(expire, exp), FALSE,
                             [hist EXCEPT ![tag] =
                                 Renamed(hist[tag], key, exp # NoTime,
                                         new_key # key /\ OldPending(new_key))])
             ELSE Same(SimpleError(NoSuchKey))

\* do_rename that stores the value under the tag the destination had
do_rename_dst_tag(args) ==
    IF ~IsBulk(args, 1) THEN Same(SimpleError(InvalidArguments))
    ELSE IF ~IsBulk(args, 2) THEN Same(SimpleError(InvalidArguments))
    ELSE LET key == args[1].str
             new_key == args[2].str
         IN  IF Present(key)
             THEN LET tag == items[key].tag
                      kept == IF Present(new_key) THEN items[new_key].tag ELSE tag
                      exp == get_expiry(expire, tag)
                  IN  Result(SimpleString(OK),
                             Insert(Remove(items, key), new_key,
                                    [val |-> items[key].val, tag |-> kept]),
                             tag_counter,
                             IF exp # NoTime THEN push(expire, new_key, tag, exp)
                             ELSE expire,
                             exp # NoTime /\ PushWoke(expire, exp), FALSE,
                             Insert(hist, kept,
                                    Renamed(hist[tag], key, exp # NoTime,
                                            new_key # key /\ OldPending(new_key))))
             ELSE Same(SimpleError(NoSuchKey))

\* do_rename that moves the key and its tag without a record under the new
\* name
do_rename_no_record(args) ==
    IF ~IsBulk(args, 1) THEN Same(SimpleError(InvalidArguments))
    ELSE IF ~IsBulk(args, 2) THEN Same(SimpleError(InvalidArguments))
    ELSE LET key == args[1].str
             new_key == args[2].str
         IN  IF Present(key)
             THEN LET val == items[key].val
                      tag == items[key].tag
                      exp == get_expiry(expire, tag)
                  IN  Result(SimpleString(OK),
                             Insert(Remove(items, key), new_key,
                                    [val |-> val, tag |-> tag]),
                             tag_counter, expire, FALSE, FALSE,
                             [hist EXCEPT ![tag] =
                                 Renamed(hist[tag], key, exp # NoTime,
                                         new_key # key /\ OldPending(new_key))])
             ELSE Same(SimpleError(NoSuchKey))

do_rename(args) ==
    IF ~IsBulk(args, 1) THEN Same(SimpleError(InvalidArguments))
    ELSE IF ~IsBulk(args, 2) THEN Same(SimpleError(InvalidArguments))
    ELSE LET key == args[1].str
             new_key == args[2].str
         IN  IF Present(key)
             THEN LET val == items[key].val
                      tag == items[key].tag
                      exp == get_expiry(expire, tag)
                  IN  Result(SimpleString(OK),
                             Insert(Remove(items, key), new_key,
                                    [val |-> val, tag |-> tag]),
                             tag_counter,
                             IF exp # NoTime THEN push(expire, new_key, tag, exp)
                             ELSE expire,
                             exp # NoTime /\ PushWoke(expire, exp), FALSE,
                             [hist EXCEPT ![tag] =
                                 Renamed(hist[tag], key, exp # NoTime,
                                         new_key # key /\ OldPending(new_key))])
             ELSE Same(SimpleError(NoSuchKey))

\* do_rpush that forgets to advance the tag counter
do_rpush_keeps_counter(args) ==
    IF ~IsBulk(args, 1) THEN Same(SimpleError(InvalidArguments))
    ELSE LET key == args[1].str
             entry == IF Present(key) THEN items[key]
                      ELSE [val |-> Array(<<>>), tag |-> tag_counter]
         IN  IF entry.val.type # "Array"
             THEN Same(SimpleError(WrongType))
             ELSE Result(Integer(Len(entry.val.arr \o Tail(args))),
                         Insert(items, key,
                                [val |-> Array(entry.val.arr \o Tail(args)),
                                 tag |-> entry.tag]),
                         tag_counter, expire, FALSE, FALSE,
                         IF Present(key) THEN hist
                         ELSE Insert(hist, tag_counter, Born("RPUSH", FALSE, NoTime)))

\* do_rpush that puts a new list in the place of a value that is no list
do_rpush_replaces(args) ==
    IF ~IsBulk(args, 1) THEN Same(SimpleError(InvalidArguments))
    ELSE LET key == args[1].str
             old == IF Present(key) /\ items[key].val.type = "Array"
                    THEN items[key].val.arr ELSE <<>>
         IN  Result(Integer(Len(old \o Tail(args))),
                    Insert(items, key,
                           [val |-> Array(old \o Tail(args)),
                            tag |-> IF Present(key) THEN items[key].tag
                                    ELSE tag_counter]),
                    tag_counter + 1, expire, FALSE, FALSE,
                    IF Present(key) THEN hist
                    ELSE Insert(hist, tag_counter, Born("RPUSH", FALSE, NoTime)))

\* do_rpush that gives the list the tag it took from the counter
do_rpush_retags(args) ==
    IF ~IsBulk(args, 1) THEN Same(SimpleError(InvalidArguments))
    ELSE LET key == args[1].str
             tag == tag_counter
             entry == IF Present(key) THEN items[key]
                      ELSE [val |-> Array(<<>>), tag |-> tag]
         IN  IF entry.val.type # "Array"
             THEN Result(SimpleError(WrongType), items, tag_counter + 1,
                         expire, FALSE, FALSE, hist)
             ELSE LET list == entry.val.arr \o Tail(args)
                  IN  Result(Integer(Len(list)),
                             Insert(items, key, [val |-> Array(list), tag |-> tag]),
                             tag_counter + 1, expire, FALSE, FALSE,
                             Insert(hist, tag, Born("RPUSH", OldPending(key), NoTime)))

do_rpush(args) ==
    IF ~IsBulk(args, 1) THEN Same(SimpleError(InvalidArguments))
    ELSE LET key == args[1].str
             tag == tag_counter
             entry == IF Present(key) THEN items[key]
                      ELSE [val |-> Array(<<>>), tag |-> tag]
             h == IF Present(key) THEN hist
                  ELSE Insert(hist, tag, Born("RPUSH", FALSE, NoTime))
         IN  IF entry.val.type # "Array"
             THEN Result(SimpleError(WrongType), items, tag_counter + 1,
                         expire, FALSE, FALSE, hist)
             ELSE LET list == entry.val.arr \o Tail(args)
                  IN  Result(Integer(Len(list)),
                             Insert(items, key, [val |-> Array(list), tag |-> entry.tag]),
                             tag_counter + 1, expire, FALSE, FALSE, h)

\* do_rpop: PopCount; -1 is Single, -2 the invalid-arguments return
PopCount(args) ==
    IF Len(args) < 2 THEN -1
    ELSE IF args[2].type = "Integer"
         THEN (IF args[2].int < 0 THEN -2 ELSE args[2].int)
    ELSE IF args[2].type \in {"BulkString", "SimpleString"}
         THEN (IF ParseU64(args[2].str) = -1 THEN -2 ELSE ParseU64(args[2].str))
    ELSE -2

Min(a, b) == IF a < b THEN a ELSE b
\* the last n elements, tail first
RECURSIVE PopTail(_, _)
PopTail(list, n) ==
    IF n = 0 \/ list = <<>> THEN <<>>
    ELSE <<list[Len(list)]>> \o PopTail(SubSeq(list, 1, Len(list) - 1), n - 1)

do_rpop(args) ==
    IF ~IsBulk(args, 1) THEN Same(SimpleError(InvalidArguments))
    ELSE IF PopCount(args) = -2 THEN Same(SimpleError(InvalidArguments))
    ELSE LET key == args[1].str
             count == PopCount(args)
         IN  IF ~Present(key) \/ items[key].val.type # "Array" THEN Same(Null)
             ELSE LET list == items[key].val.arr
                      n == IF count = -1 THEN 1 ELSE Min(count, Len(list))
                      rest == SubSeq(list, 1, Len(list) - n)
                      res == IF count = -1 THEN list[Len(list)]
                             ELSE Array(PopTail(list, n))
                  IN  IF Len(list) = 0
                      THEN Result(Null, items, tag_counter, expire, FALSE, TRUE, hist)
                      ELSE Result(res,
                                  IF rest = <<>> THEN Remove(items, key)
                                  ELSE [items EXCEPT ![key].val = Array(rest)],
                                  tag_counter, expire, FALSE, FALSE, hist)

\* ---------------------------------------------------------------- expire worker
\* until_expire: the deadline of the timer it creates
until_expire(e) ==
    IF BagToSet(e.items) = {} THEN Never ELSE peek(e.items).time

TimerDue(t) == t # Never /\ t <= now

\* UpdateFuture::poll
UpdatePoll(e) ==
    IF e.updated THEN [ready |-> TRUE, expire |-> [e EXCEPT !.updated = FALSE]]
    ELSE [ready |-> FALSE, expire |-> [e EXCEPT !.waker = TRUE]]

\* smol::future::or: the timer is polled first, the update future only
\* when the timer is pending
OrPoll(t, e) ==
    IF TimerDue(t) THEN [ready |-> TRUE, expire |-> e] ELSE UpdatePoll(e)

\* the history kept for the tags that are still some key's tag
Live(h, its) == [t \in {its[k].tag : k \in DOMAIN its} |-> h[t]]

\* a record that removes its key whatever tag the key carries
MatchesAnyTag(its, ex) == ex.key \in DOMAIN its

\* expire_worker: does the popped record remove its key
Matches(its, ex) == ex.key \in DOMAIN its /\ its[ex.key].tag = ex.id

\* expire_worker: the while loop over try_pop
RECURSIVE DrainLoop(_, _, _)
DrainLoop(its, e, log) ==
    IF CanPop(e, now)
    THEN LET ex == peek(e.items)
         IN  DrainLoop(IF Matches(its, ex) THEN Remove(its, ex.key) ELSE its,
                       try_pop(e),
                       Append(log, [key |-> ex.key, id |-> ex.id, time |-> ex.time,
                                    removed |-> Matches(its, ex),
                                    ttl |-> IF Matches(its, ex) /\ ex.id \in DOMAIN hist
                                            THEN hist[ex.id].ttl
                                            ELSE NoTime,
                                    cmd |-> IF ex.id \in DOMAIN hist
                                            THEN hist[ex.id].cmd ELSE "",
                                    ren |-> IF ex.id \in DOMAIN hist
                                            THEN hist[ex.id].ren ELSE {},
                                    holder |-> {k \in DOMAIN its : its[k].tag = ex.id}]))
    ELSE [items |-> its, expire |-> e, log |-> log]

\* the stop flag looked at before the due records are popped
RECURSIVE WorkerLoopStopFirst(_, _, _, _)
WorkerLoopStopFirst(its, e, t, log) ==
    LET p == OrPoll(t, e)
    IN  IF ~p.ready
        THEN [items |-> its, expire |-> p.expire, timer |-> t, pc |-> "waiting",
              log |-> log]
        ELSE IF stop
        THEN [items |-> its, expire |-> p.expire, timer |-> Never, pc |-> "done",
              log |-> log]
        ELSE LET d == DrainLoop(its, p.expire, log)
             IN  WorkerLoopStopFirst(d.items, d.expire, until_expire(d.expire), d.log)

\* expire_worker: from a poll of the or-future on, up to the next poll that
\* returns Pending or to the exit; nothing in between suspends
RECURSIVE WorkerLoop(_, _, _, _)
WorkerLoop(its, e, t, log) ==
    LET p == OrPoll(t, e)
    IN  IF ~p.ready
        THEN [items |-> its, expire |-> p.expire, timer |-> t, pc |-> "waiting",
              log |-> log]
        ELSE LET d == DrainLoop(its, p.expire, log)
             IN  IF stop
                 THEN [items |-> d.items, expire |-> d.expire, timer |-> Never,
                       pc |-> "done", log |-> d.log]
                 ELSE WorkerLoop(d.items, d.expire, until_expire(d.expire), d.log)

\* the worker's task is runnable: never polled yet, woken, or its timer fired
Runnable == wpc = "init" \/ (wpc = "waiting" /\ (woken \/ TimerDue(timer)))

WorkerRun ==
    /\ ~panicked
    /\ Runnable
    /\ UNCHANGED wire
    /\ UNCHANGED <<tag_counter, stop, now, panicked, conn, run, seq>>
    /\ woken' = FALSE
    /\ \E r \in {WorkerLoop(items, expire,
                           IF wpc = "init" THEN until_expire(expire) ELSE timer,
                           <<>>)} :
           /\ items' = r.items
           /\ expire' = r.expire
           /\ timer' = r.timer
           /\ wpc' = r.pc
           /\ lastDrain' = r.log
           /\ hist' = Live(hist, r.items)

\* ---------------------------------------------------------------- clock
Tick ==
    /\ ~panicked
    /\ now < MaxTime
    /\ now' = now + 1
    /\ lastDrain' = <<>>
    /\ UNCHANGED wire
    /\ UNCHANGED <<items, tag_counter, stop, expire, wpc, timer, woken,
                   panicked, hist, conn, run, seq>>

\* ---------------------------------------------------------------- tasks
MaxConn == 2       \* connection workers
Conns == 1..MaxConn
NoTask == 0        \* the executor polls no task
WorkerTask == -1   \* the expire worker, as a value of run

\* the locals of a handler that its later statements read
NoTmp == [val |-> Null, tag |-> NoTag, time |-> NoTime, n |-> 0]
\* connection_worker before a frame arrived
Idle == [pc |-> "parse", cmd |-> "", args |-> <<>>, tmp |-> NoTmp]

\* the fields of State the handlers and the worker write
Shared == [items |-> items, tag_counter |-> tag_counter, expire |-> expire]

\* ---------------------------------------------------------------- commands
KeyArg == {BulkString(k) : k \in Keys}
ValArg == {BulkString(v) : v \in Vals}
BadArg == Integer(1)
SecsArg == {BulkString(<<"0">>), BulkString(<<"1">>), BulkString(<<"2">>),
            BulkString(<<"x">>), BulkString(U64Max)}
CountArg == {Integer(-1), Integer(0), Integer(1), Integer(2), BulkString(<<"1">>),
             BulkString(<<"x">>), Null}

PingArgs == {<<>>} \cup {<<v>> : v \in ValArg}
SetArgs == {<<k, v>> : k \in KeyArg, v \in ValArg} \cup {<<>>} \cup {<<k>> : k \in KeyArg}
GetArgs == {<<k>> : k \in KeyArg} \cup {<<BadArg>>}
DelArgs == {<<>>} \cup {<<k>> : k \in KeyArg \cup {BadArg}}
               \cup {<<k, j>> : k \in KeyArg, j \in KeyArg \cup {BadArg}}
ExpireArgs == {<<k, s>> : k \in KeyArg, s \in SecsArg} \cup {<<BadArg>>}
                  \cup {<<k>> : k \in KeyArg}
PersistArgs == {<<k>> : k \in KeyArg} \cup {<<>>}
RenameArgs == {<<k, j>> : k \in KeyArg, j \in KeyArg} \cup {<<k>> : k \in KeyArg}
                  \cup {<<BadArg>>}
RpushArgs == {<<k>> : k \in KeyArg} \cup {<<k, v>> : k \in KeyArg, v \in ValArg}
                 \cup {<<k, v, w>> : k \in KeyArg, v \in ValArg, w \in ValArg}
                 \cup {<<>>}
RpopArgs == {<<k>> : k \in KeyArg} \cup {<<k, c>> : k \in KeyArg, c \in CountArg}
                \cup {<<BadArg>>}

\* the bounds of the model, as a guard on what a command leaves behind
InBounds(res) ==
    /\ res.tag_counter <= MaxTag
    /\ BagCardinality(res.expire.items) <= MaxHeap
    /\ \A r \in BagToSet(res.expire.items) : r.time <= MaxTime
    /\ \A k \in DOMAIN res.items : Len(res.items[k].val.arr) <= MaxList

\* what a handler that returned res leaves behind
Effect(res) ==
    /\ items' = res.items
    /\ tag_counter' = res.tag_counter
    /\ expire' = res.expire
    /\ woken' = (woken \/ res.woke)
    /\ panicked' = res.panic
    /\ hist' = Live(res.hist, res.items)
    /\ lastDrain' = <<>>
    /\ UNCHANGED <<stop, now, wpc, timer, conn, run, seq>>

\* connection_worker: one command, from parse returning to the reply, which
\* is res.reply; connections are accepted only after the expire worker was
\* first polled
Command(res) ==
    /\ ~panicked
    /\ wpc # "init"
    /\ InBounds(res)
    /\ Effect(res)
    /\ UNCHANGED wire

Ping == \E args \in PingArgs : Command(do_ping(args))
Set == \E args \in SetArgs : Command(do_set(args))
Get == \E args \in GetArgs : Command(do_get(args))
Del == \E args \in DelArgs : Command(do_del(args))
Expire == \E args \in ExpireArgs : Command(do_expire(args))
Persist == \E args \in PersistArgs : Command(do_persist(args))
Rename == \E args \in RenameArgs : Command(do_rename(args))
Rpush == \E args \in RpushArgs : Command(do_rpush(args))
Rpop == \E args \in RpopArgs : Command(do_rpop(args))

\* ---------------------------------------------------------------- specification
Boot ==
    /\ conn = [c \in Conns |-> Idle]
    /\ run = NoTask
    /\ seq = [items |-> NoMap, tag_counter |-> 0, expire |-> ExpireNew]
    /\ items = NoMap
    /\ tag_counter = 0
    /\ stop = FALSE
    /\ expire = ExpireNew
    /\ now = 0
    /\ wpc = "init"
    /\ timer = Never
    /\ woken = FALSE
    /\ panicked = FALSE
    /\ hist = NoMap
    /\ lastDrain = <<>>

\* no connection is modelled at the byte level
NoRet == [kind |-> "None", item |-> Null]
WireOff ==
    /\ reader = Stream(<<>>, "idle")
    /\ parser = ItemParserNew
    /\ ret = NoRet
    /\ out_buffer = <<>>
    /\ sent = 0
    /\ writer = <<>>
    /\ lpc = "off"
    /\ frames = <<>>
    /\ given = <<>>

Init == Boot /\ WireOff

Next ==
    \/ Ping \/ Set \/ Get \/ Del \/ Expire \/ Persist \/ Rename \/ Rpush \/ Rpop
    \/ WorkerRun
    \/ Tick

Spec == Init /\ [][Next]_vars

\* ---------------------------------------------------------------- one connection, byte by byte
MaxFrames == 2     \* frames the peer sends on the connection
MaxCalls == 3      \* calls of parse the connection worker makes

ERR == <<"E", "R", "R">>
UnknownCommand == <<"unknown command">>
InvalidCommand == <<"invalid command">>

\* String::make_ascii_lowercase
Upper == <<"A", "B", "C", "D", "E", "F", "G", "H", "I", "J", "K", "L", "M",
           "N", "O", "P", "Q", "R", "S", "T", "U", "V", "W", "X", "Y", "Z">>
Lower == <<"a", "b", "c", "d", "e", "f", "g", "h", "i", "j", "k", "l", "m",
           "n", "o", "p", "q", "r", "s", "t", "u", "v", "w", "x", "y", "z">>
to_ascii_lowercase(c) ==
    IF \E i \in 1..26 : Upper[i] = c
    THEN Lower[CHOOSE i \in 1..26 : Upper[i] = c]
    ELSE c
make_ascii_lowercase(s) == [i \in 1..Len(s) |-> to_ascii_lowercase(s[i])]

\* handle_command: the reply and the State afterwards
handle_command(command) ==
    IF command.type # "Array" THEN Same(SimpleError(UnknownCommand))
    ELSE IF \/ command.arr = <<>>
            \/ Head(command.arr).type \notin {"BulkString", "SimpleString"}
    THEN Same(SimpleError(InvalidCommand))
    ELSE LET name == make_ascii_lowercase(Head(command.arr).str)
             args == Tail(command.arr)
         IN  CASE name = <<"p", "i", "n", "g">> -> do_ping(args)
               [] name = <<"s", "e", "t">> -> do_set(args)
               [] name = <<"g", "e", "t">> -> do_get(args)
               [] name = <<"d", "e", "l">> -> do_del(args)
               [] name = <<"e", "x", "p", "i", "r", "e">> -> do_expire(args)
               [] name = <<"p", "e", "r", "s", "i", "s", "t">> -> do_persist(args)
               [] name = <<"r", "e", "n", "a", "m", "e">> -> do_rename(args)
               [] name = <<"r", "p", "u", "s", "h">> -> do_rpush(args)
               [] name = <<"r", "p", "o", "p">> -> do_rpop(args)
               [] OTHER -> Same(SimpleError(UnknownCommand))

\* what a client sends: a command as an array of bulk strings
Cmd(name, args) ==
    serialize(Array(<<BulkString(name)>> \o [i \in 1..Len(args) |-> BulkString(args[i])]))

\* the frames of the model: commands, a value that is no command, and lines
\* that are no frame
WireFrames ==
    {Cmd(<<"P", "i", "N", "G">>, <<>>),
     Cmd(<<"P", "I", "N", "G">>, <<<<"x", LF, "y">>>>),
     Cmd(<<"S", "E", "T">>, <<<<"a">>, <<"v">>>>),
     Cmd(<<"g", "e", "t">>, <<<<"a">>>>),
     Cmd(<<"D", "E", "L">>, <<<<"a">>>>),
     Cmd(<<"E", "X", "P", "I", "R", "E">>, <<<<"a">>, U64Max>>),
     serialize(SimpleString(<<"h", "i">>)),
     <<"x", CR, LF>>,
     <<LF>>,
     <<"*", "1", CR, LF, ":", "x", CR, LF>>}

\* the concatenations of up to n frames
RECURSIVE Inputs(_)
Inputs(n) ==
    IF n = 0 THEN {<<>>}
    ELSE Inputs(n - 1) \cup {f \o s : f \in WireFrames, s \in Inputs(n - 1)}

\* connection_worker: which results of parse end the worker
FatalOnAnyError(kind) == kind # "Ok"
Fatal(kind) == kind = "IoError"

\* connection_worker: out_buffer.clear(); res.serialize(&mut out_buffer)
RefillKeeps(buffer, reply) == buffer \o serialize(reply)
Refill(buffer, reply) == serialize(reply)

\* the part of out_buffer that write_all has still to write
Unsent == SubSeq(out_buffer, sent + 1, Len(out_buffer))

\* one entry of the history of frames
Frame(kind, item, reply) == [kind |-> kind, item |-> item, reply |-> reply]

WireInit ==
    /\ Boot
    /\ \E in \in Inputs(MaxFrames) : \E end \in Ends :
          /\ reader = Stream(IF in = <<>> THEN <<>> ELSE <<in>>, end)
          /\ given = in
    /\ parser = ItemParserNew
    /\ ret = NoRet
    /\ out_buffer = <<>>
    /\ sent = 0
    /\ writer = <<>>
    /\ lpc = "parse"
    /\ frames = <<>>

\* connection_worker: parser.parse(&mut reader).await returns, the match on
\* its result, handle_command, and the reply serialized into out_buffer
WireParse ==
    /\ ~panicked
    /\ wpc # "init"
    /\ lpc = "parse"
    /\ Len(frames) < MaxCalls
    /\ UNCHANGED <<stop, now, wpc, timer, conn, run, seq, writer, given>>
    /\ \E r \in {parse(parser, reader)} :
          /\ r.kind # "Pending"
          /\ reader' = r.stream
          /\ parser' = r.parser
          /\ ret' = [kind |-> r.kind, item |-> r.item]
          /\ IF Fatal(r.kind)
             THEN /\ lpc' = "exit"
                  /\ UNCHANGED <<items, tag_counter, expire, woken, panicked, hist,
                                 lastDrain, out_buffer, sent, frames>>
             ELSE \E h \in {IF r.kind = "Ok" THEN handle_command(r.item)
                            ELSE Same(SimpleError(ERR))} :
                     /\ InBounds(h)
                     /\ items' = h.items
                     /\ tag_counter' = h.tag_counter
                     /\ expire' = h.expire
                     /\ woken' = (woken \/ h.woke)
                     /\ panicked' = h.panic
                     /\ hist' = Live(h.hist, h.items)
                     /\ lastDrain' = <<>>
                     /\ IF h.panic
                        THEN UNCHANGED <<lpc, out_buffer, sent, frames>>
                        ELSE /\ lpc' = "write"
                             /\ sent' = 0
                             /\ out_buffer' = Refill(out_buffer, h.reply)
                             /\ frames' = Append(frames, Frame(r.kind, r.item, h.reply))

\* writer.write_all(&out_buffer[..]).await: one write of n bytes
WireWrite ==
    /\ ~panicked
    /\ lpc = "write"
    /\ \E n \in 1..Len(Unsent) :
          /\ writer' = writer \o SubSeq(Unsent, 1, n)
          /\ sent' = sent + n
          /\ lpc' = IF n = Len(Unsent) THEN "parse" ELSE "write"
    /\ UNCHANGED <<items, tag_counter, stop, expire, now, wpc, timer, woken,
                   panicked, hist, lastDrain, conn, run, seq,
                   reader, parser, ret, out_buffer, frames, given>>

\* writer.write_all(&out_buffer[..]).await?: a write fails
WireWriteErr ==
    /\ ~panicked
    /\ lpc = "write"
    /\ lpc' = "exit"
    /\ UNCHANGED <<items, tag_counter, stop, expire, now, wpc, timer, woken,
                   panicked, hist, lastDrain, conn, run, seq,
                   reader, parser, ret, out_buffer, sent, writer, frames, given>>

WireNext ==
    \/ WireParse
    \/ WireWrite
    \/ WireWriteErr
    \/ WorkerRun

WireSpec == WireInit /\ [][WireNext]_vars

\* ---------------------------------------------------------------- the parser by itself
MaxElems == 2      \* elements of an array that is parsed
MaxCuts == 1       \* places where the input is cut into chunks, unless cut everywhere

\* the strings of the model: empty, plain, and holding a line feed
Strs == {<<>>, <<"a", "b">>, <<LF>>, <<"a", LF, "b">>}
Scalars ==
    {SimpleString(s) : s \in Strs} \cup {SimpleError(s) : s \in Strs}
        \cup {BulkString(s) : s \in Strs}
        \cup {Integer(-12), Integer(0), Integer(7), Null, Boolean(TRUE), Boolean(FALSE)}
SeqsUpTo(S, n) == UNION {[1..k -> S] : k \in 0..n}
Elems == {BulkString(<<"a">>), Integer(7), Array(<<>>), Array(<<Integer(7)>>)}
Arrays ==
    {Array(a) : a \in SeqsUpTo(Elems, MaxElems)}
        \cup {Array(<<Array(<<Array(<<>>), BulkString(<<"a">>)>>), Integer(7)>>),
              Array(<<BulkString(<<"a", LF, "b">>), Integer(7)>>)}
Values == Scalars \cup Arrays

\* what precedes the frame: nothing, or bytes on which one call of parse
\* fails, also inside a nested array
Failing ==
    {<<>>,
     <<"x", CR, LF>>,
     <<LF>>,
     <<"*", "2", CR, LF, "*", "1", CR, LF, ":", "x", CR, LF>>,
     <<"*", "1", CR, LF, LF>>}
\* what follows the frame
Following == {<<>>, <<"#", "t", CR, LF>>}

\* the sets of at most k places to cut n bytes at, and every place
RECURSIVE CutSets(_, _)
CutSets(n, k) ==
    IF k = 0 THEN {{}}
    ELSE CutSets(n, k - 1) \cup {S \cup {i} : S \in CutSets(n, k - 1), i \in 1..(n - 1)}
Cuts(n) == CutSets(n, MaxCuts) \cup {1..(n - 1)}

\* the bytes b as the chunks that the cuts leave
RECURSIVE Split(_, _)
Split(b, cuts) ==
    LET c == {i \in cuts : i < Len(b)}
    IN  IF b = <<>> THEN <<>>
        ELSE IF c = {} THEN <<b>>
        ELSE LET m == CHOOSE i \in c : \A j \in c : i <= j
             IN  <<SubSeq(b, 1, m)>>
                     \o Split(SubSeq(b, m + 1, Len(b)), {i - m : i \in c \ {m}})

\* one entry of the history of calls: what parse returned and the bytes it
\* left unread
Returned(kind, item, rest) == [kind |-> kind, item |-> item, rest |-> rest]

ParseInit ==
    /\ Boot
    /\ \E bad \in Failing : \E v \in Values : \E after \in Following :
          LET bytes == bad \o serialize(v) \o after
          IN  \E cuts \in Cuts(Len(bytes)) :
                 /\ reader = Stream(Split(bytes, cuts), "eof")
                 /\ given = [bad |-> bad, v |-> v, after |-> after, bytes |-> bytes,
                             cuts |-> cuts]
    /\ parser = ItemParserNew
    /\ ret = NoRet
    /\ out_buffer = <<>>
    /\ sent = 0
    /\ writer = <<>>
    /\ lpc = "parse"
    /\ frames = <<>>

\* what a step of parse leaves behind
ParseStep(r) ==
    /\ reader' = r.stream
    /\ parser' = r.parser
    /\ ret' = [kind |-> r.kind, item |-> r.item]
    /\ frames' = IF r.kind = "Running" THEN frames
                 ELSE Append(frames, Returned(r.kind, r.item, Flatten(r.stream.chunks)))
    /\ UNCHANGED <<items, tag_counter, stop, expire, now, wpc, timer, woken,
                   panicked, hist, lastDrain, conn, run, seq,
                   out_buffer, sent, writer, lpc, given>>

\* parse is called while input is left: the clears and the first parse_partial
ParseCall ==
    /\ ret.kind # "Running"
    /\ reader.chunks # <<>>
    /\ Len(frames) < MaxCalls
    /\ \E r \in {parse_begin(parser, reader)} : ParseStep(r)

\* one iteration of the loop of parse
ParseIter ==
    /\ ret.kind = "Running"
    /\ \E r \in {parse_iter(parser, reader)} : ParseStep(r)

ParseNext == ParseCall \/ ParseIter

ParseSpec == ParseInit /\ [][ParseNext]_vars

\* ---------------------------------------------------------------- commands, the last one kept
MaxLen == 3        \* elements of a stored list

ListInBounds(res) ==
    /\ res.tag_counter <= MaxTag
    /\ \A k \in DOMAIN res.items : Len(res.items[k].val.arr) <= MaxLen

\* connection_worker: one command as in Command; frames keeps the command
\* and its reply, of the last command only
Logged(name, args, res) ==
    /\ ~panicked
    /\ wpc # "init"
    /\ ListInBounds(res)
    /\ Effect(res)
    /\ frames' = <<Frame("Ok", Array(<<BulkString(name)>> \o args), res.reply)>>
    /\ UNCHANGED <<reader, parser, ret, out_buffer, sent, writer, lpc, given>>

CountArgs == {Integer(0), Integer(1), Integer(2), Integer(-1), BulkString(<<"3">>)}
SetLogged ==
    \E k \in KeyArg : \E v \in ValArg :
        Logged(<<"s", "e", "t">>, <<k, v>>, do_set(<<k, v>>))
DelLogged ==
    \E args \in SeqsUpTo(KeyArg, 3) \cup {<<k, BadArg>> : k \in KeyArg} :
        Logged(<<"d", "e", "l">>, args, do_del(args))
RpushLogged ==
    \E k \in KeyArg : \E vs \in SeqsUpTo(ValArg, 2) :
        Logged(<<"r", "p", "u", "s", "h">>, <<k>> \o vs, do_rpush(<<k>> \o vs))
RpopLogged ==
    \E args \in {<<k>> : k \in KeyArg} \cup {<<k, c>> : k \in KeyArg, c \in CountArgs} :
        Logged(<<"r", "p", "o", "p">>, args, do_rpop(args))

LoggedNext ==
    \/ SetLogged \/ DelLogged \/ RpushLogged \/ RpopLogged
    \/ WorkerRun

LoggedSpec == Init /\ [][LoggedNext]_vars

\* ---------------------------------------------------------------- lists and their expiry
\* connection_worker: one command as in Logged, of those that are not
\* refused for their arguments, the heap within the bounds of Spec; frames
\* keeps the name of the last command and its reply
Tailed(name, args, res) ==
    /\ ~panicked
    /\ wpc # "init"
    /\ UNCHANGED <<reader, parser, ret, out_buffer, sent, writer, lpc, given>>
    /\ \E r \in {res} :
          /\ r.reply # SimpleError(InvalidArguments)
          /\ ListInBounds(r)
          /\ BagCardinality(r.expire.items) <= MaxHeap
          /\ \A q \in BagToSet(r.expire.items) : q.time <= MaxTime
          /\ Effect(r)
          /\ frames' = <<Frame("Ok", BulkString(name), r.reply)>>

RpushTailed ==
    \E args \in RpushArgs : Tailed(<<"r", "p", "u", "s", "h">>, args, do_rpush(args))
RpopTailed ==
    \E args \in RpopArgs : Tailed(<<"r", "p", "o", "p">>, args, do_rpop(args))
ExpireTailed ==
    \E args \in ExpireArgs :
        Tailed(<<"e", "x", "p", "i", "r", "e">>, args, do_expire(args))

TailNext ==
    \/ RpushTailed \/ RpopTailed \/ ExpireTailed
    \/ WorkerRun
    \/ Tick
TailSpec == Init /\ [][TailNext]_vars

\* ---------------------------------------------------------------- every command, the last one kept
\* connection_worker: one command as in Command, of those that are not
\* refused for their arguments; frames keeps the name of the last command
\* and its reply
Replied(name, args, res) ==
    /\ ~panicked
    /\ wpc # "init"
    /\ UNCHANGED <<reader, parser, ret, out_buffer, sent, writer, lpc, given>>
    /\ \E r \in {res} :
          /\ r.reply # SimpleError(InvalidArguments)
          /\ InBounds(r)
          /\ Effect(r)
          /\ frames' = <<Frame("Ok", BulkString(name), r.reply)>>

SetReplied ==
    \E args \in SetArgs : Replied(<<"s", "e", "t">>, args, do_set(args))
DelReplied ==
    \E args \in DelArgs : Replied(<<"d", "e", "l">>, args, do_del(args))
ExpireReplied ==
    \E args \in ExpireArgs :
        Replied(<<"e", "x", "p", "i", "r", "e">>, args, do_expire(args))
PersistReplied ==
    \E args \in PersistArgs :
        Replied(<<"p", "e", "r", "s", "i", "s", "t">>, args, do_persist(args))
RenameReplied ==
    \E args \in RenameArgs :
        Replied(<<"r", "e", "n", "a", "m", "e">>, args, do_rename(args))
RpushReplied ==
    \E args \in RpushArgs : Replied(<<"r", "p", "u", "s", "h">>, args, do_rpush(args))

\* keys of both types: strings and lists, and their expiry
TypedNext ==
    \/ SetReplied \/ RpushReplied \/ ExpireReplied
    \/ WorkerRun
    \/ Tick
TypedSpec == Init /\ [][TypedNext]_vars

\* the commands of ExpiryNext, the last one kept
KeyedNext ==
    \/ SetReplied \/ DelReplied \/ ExpireReplied \/ PersistReplied \/ RenameReplied
    \/ WorkerRun
    \/ Tick
KeyedSpec == Init /\ [][KeyedNext]_vars

\* reads and removals of string keys around their deadlines, the last
\* command kept
GetReplied ==
    \E args \in GetArgs : Replied(<<"g", "e", "t">>, args, do_get(args))
LateNext ==
    \/ SetReplied \/ GetReplied \/ DelReplied \/ ExpireReplied
    \/ WorkerRun
    \/ Tick
LateSpec == Init /\ [][LateNext]_vars

\* history: per key, the value of the most recent SET of the key, and the
\* value most recently stored under the key by SET or carried to it by RENAME
NoWrites == [set |-> NoMap, wrote |-> NoMap]

\* one command as in Replied, and the history of writes after it; frames
\* keeps the reply of the last command when that was GET
Noted(name, args, res, writes) ==
    /\ ~panicked
    /\ wpc # "init"
    /\ UNCHANGED <<reader, parser, ret, out_buffer, sent, writer, lpc>>
    /\ \E r \in {res} :
          /\ r.reply # SimpleError(InvalidArguments)
          /\ InBounds(r)
          /\ Effect(r)
          /\ frames' = IF name = <<"g", "e", "t">>
                       THEN <<Frame("Ok", BulkString(name), r.reply)>>
                       ELSE <<>>
    /\ given' = writes

GetNoted ==
    \E args \in GetArgs : Noted(<<"g", "e", "t">>, args, do_get(args), given)
SetNoted ==
    \E args \in SetArgs :
        Noted(<<"s", "e", "t">>, args, do_set(args),
              [set |-> Insert(given.set, args[1].str, args[2]),
               wrote |-> Insert(given.wrote, args[1].str, args[2])])
DelNoted ==
    \E args \in DelArgs : Noted(<<"d", "e", "l">>, args, do_del(args), given)
ExpireNoted ==
    \E args \in ExpireArgs :
        Noted(<<"e", "x", "p", "i", "r", "e">>, args, do_expire(args), given)
RenameNoted ==
    \E args \in RenameArgs :
        Noted(<<"r", "e", "n", "a", "m", "e">>, args, do_rename(args),
              IF Present(args[1].str)
              THEN [given EXCEPT !.wrote =
                       Insert(@, args[2].str, items[args[1].str].val)]
              ELSE given)
RpushNoted ==
    \E args \in RpushArgs :
        Noted(<<"r", "p", "u", "s", "h">>, args, do_rpush(args), given)

ReadInit ==
    /\ Boot
    /\ reader = Stream(<<>>, "idle")
    /\ parser = ItemParserNew
    /\ ret = NoRet
    /\ out_buffer = <<>>
    /\ sent = 0
    /\ writer = <<>>
    /\ lpc = "off"
    /\ frames = <<>>
    /\ given = NoWrites

\* GET and what makes a key hold a string, a list or nothing
ReadNext ==
    \/ GetNoted \/ SetNoted \/ DelNoted \/ ExpireNoted \/ RenameNoted \/ RpushNoted
    \/ WorkerRun
ReadSpec == ReadInit /\ [][ReadNext]_vars

\* State.stop is set: no code of the server sets it, the step stands for
\* the shutdown the specification speaks of
SetStop ==
    /\ ~panicked
    /\ ~stop
    /\ stop' = TRUE
    /\ UNCHANGED wire
    /\ UNCHANGED <<items, tag_counter, expire, now, wpc, timer, woken, panicked,
                   hist, lastDrain, conn, run, seq>>

\* the commands that touch keys and their expiry, without the list commands
ExpiryNext ==
    \/ Set \/ Del \/ Expire \/ Persist \/ Rename
    \/ WorkerRun
    \/ Tick

\* the same, and the stop flag may be set at any moment
StopNext ==
    \/ Set \/ Del \/ Expire \/ Persist \/ Rename
    \/ WorkerRun
    \/ Tick
    \/ SetStop
StopSpec == Init /\ [][StopNext]_vars

\* the executor polls a runnable task: WF_vars(WorkerRun), written with the
\* condition under which a poll of the worker is enabled
WorkerEnabled == ~panicked /\ Runnable
WorkerFair == []<>(~WorkerEnabled) \/ []<><<WorkerRun>>_vars

\* WorkerEnabled is the enabling condition of the worker's step
WorkerEnabledIsEnabled == WorkerEnabled <=> ENABLED <<WorkerRun>>_vars

\* the executor polls a task that is runnable, and the clock advances
ExpirySpec == Init /\ [][ExpiryNext]_vars /\ WorkerFair /\ WF_vars(Tick)

\* ---------------------------------------------------------------- task steps
\* connection_worker with an await inside do_set, after the insert
AwaitsInSet == {"parse", "write", "set_count"}

\* connection_worker with an await inside do_rename, after the removal of src
AwaitsInRename == {"parse", "write", "rename_push", "rename_insert"}

\* connection_worker: the positions at which the task can be suspended, its
\* two awaits; handle_command and the handlers are not async
Awaits == {"parse", "write"}

\* the commands whose handlers write State in more than one statement
CmdNames == {"set", "del", "expire", "persist", "rename"}
ArgsOf(cmd) ==
    CASE cmd = "set" -> SetArgs
      [] cmd = "del" -> DelArgs
      [] cmd = "expire" -> ExpireArgs
      [] cmd = "persist" -> PersistArgs
      [] cmd = "rename" -> RenameArgs

\* handle_command: the handler the command name selects, as one step
Handler(cmd, args) ==
    CASE cmd = "set" -> do_set(args)
      [] cmd = "del" -> do_del(args)
      [] cmd = "expire" -> do_expire(args)
      [] cmd = "persist" -> do_persist(args)
      [] cmd = "rename" -> do_rename(args)

At(pc, tmp, panic) == [pc |-> pc, tmp |-> tmp, panic |-> panic]

\* do_del: the head of the while loop, at argument n
DelAt(args, n) ==
    IF IsBulk(args, n) THEN At("del_remove", [NoTmp EXCEPT !.n = n], FALSE)
    ELSE At("write", NoTmp, FALSE)

\* a handler up to its first write of State: the position it reaches, "write"
\* when it returns without writing
Entry(cmd, args) ==
    CASE cmd = "set" ->
            IF IsBulk(args, 1) /\ IsBulk(args, 2)
            THEN At("set_insert", NoTmp, FALSE) ELSE At("write", NoTmp, FALSE)
      [] cmd = "del" -> DelAt(args, 1)
      [] cmd = "expire" ->
            IF ~IsBulk(args, 1) \/ ~IsBulk(args, 2) THEN At("write", NoTmp, FALSE)
            ELSE IF ~ParsesU64(args[2].str) THEN At("write", NoTmp, FALSE)
            ELSE IF ~Present(args[1].str) THEN At("write", NoTmp, FALSE)
            ELSE IF InstantAddOverflows(now, args[2].str)
                 THEN At("panic", NoTmp, TRUE)
            ELSE LET tag == items[args[1].str].tag
                     tmp == [NoTmp EXCEPT !.tag = tag,
                                          !.time = now + ParseU64(args[2].str)]
                 IN  IF HasExpiry(expire, tag) THEN At("expire_tag", tmp, FALSE)
                     ELSE At("expire_push", tmp, FALSE)
      [] cmd = "persist" ->
            IF IsBulk(args, 1) /\ Present(args[1].str)
            THEN At("persist_tag", NoTmp, FALSE) ELSE At("write", NoTmp, FALSE)
      [] cmd = "rename" ->
            IF IsBulk(args, 1) /\ IsBulk(args, 2) /\ Present(args[1].str)
            THEN At("rename_remove", NoTmp, FALSE) ELSE At("write", NoTmp, FALSE)

St(its, tc, e, wk, pc, tmp) ==
    [items |-> its, tag_counter |-> tc, expire |-> e, woke |-> wk,
     pc |-> pc, tmp |-> tmp]

\* one statement of a handler that writes State, and the position after it
Micro(pc, a, t) ==
    CASE pc = "set_insert" ->
            St(Insert(items, a[1].str, [val |-> a[2], tag |-> tag_counter]),
               tag_counter, expire, FALSE, "set_count", t)
      [] pc = "set_count" ->
            St(items, tag_counter + 1, expire, FALSE, "write", t)
      [] pc = "del_remove" ->
            St(Remove(items, a[t.n].str), tag_counter, expire, FALSE,
               DelAt(a, t.n + 1).pc, DelAt(a, t.n + 1).tmp)
      [] pc = "expire_tag" ->
            St([items EXCEPT ![a[1].str].tag = tag_counter], tag_counter, expire,
               FALSE, "expire_count", [t EXCEPT !.tag = tag_counter])
      [] pc = "expire_count" ->
            St(items, tag_counter + 1, expire, FALSE, "expire_push", t)
      [] pc = "expire_push" ->
            St(items, tag_counter, push(expire, a[1].str, t.tag, t.time),
               PushWoke(expire, t.time), "write", t)
      [] pc = "persist_tag" ->
            St([items EXCEPT ![a[1].str].tag = tag_counter], tag_counter, expire,
               FALSE, "persist_count", t)
      [] pc = "persist_count" ->
            St(items, tag_counter + 1, expire, FALSE, "write", t)
      [] pc = "rename_remove" ->
            St(Remove(items, a[1].str), tag_counter, expire, FALSE,
               IF HasExpiry(expire, items[a[1].str].tag) THEN "rename_push"
               ELSE "rename_insert",
               [t EXCEPT !.val = items[a[1].str].val, !.tag = items[a[1].str].tag])
      [] pc = "rename_push" ->
            St(items, tag_counter,
               push(expire, a[2].str, t.tag, get_expiry(expire, t.tag)),
               PushWoke(expire, get_expiry(expire, t.tag)), "rename_insert", t)
      [] pc = "rename_insert" ->
            St(Insert(items, a[2].str, [val |-> t.val, tag |-> t.tag]),
               tag_counter, expire, FALSE, "write", t)

\* what a connection worker keeps once it is at pc
Keep(pc, cmd, args, tmp) ==
    [pc |-> pc, cmd |-> IF pc = "write" THEN "" ELSE cmd,
     args |-> IF pc = "write" THEN <<>> ELSE args,
     tmp |-> IF pc = "write" THEN NoTmp ELSE tmp]

\* connection_worker: parse returns a command and handle_command runs up to
\* the handler's first write of State
ConnParse(c) ==
    /\ ~panicked
    /\ wpc # "init"
    /\ run = NoTask
    /\ conn[c].pc = "parse"
    /\ \E cmd \in CmdNames : \E args \in ArgsOf(cmd) :
           LET res == Handler(cmd, args)
               en == Entry(cmd, args)
           IN  /\ InBounds(res)
               /\ seq' = [items |-> res.items, tag_counter |-> res.tag_counter,
                          expire |-> res.expire]
               /\ hist' = Live(res.hist, res.items)
               /\ panicked' = en.panic
               /\ conn' = [conn EXCEPT ![c] = Keep(en.pc, cmd, args, en.tmp)]
               /\ run' = IF en.pc \in Awaits THEN NoTask ELSE c
    /\ UNCHANGED wire
    /\ UNCHANGED <<items, tag_counter, stop, expire, now, wpc, timer, woken,
                   lastDrain>>

\* the next statement of the handler; the task goes on unless it is at an await
ConnStep(c) ==
    /\ ~panicked
    /\ conn[c].pc \notin {"parse", "write"}
    /\ IF run = NoTask THEN conn[c].pc \in Awaits ELSE run = c
    /\ LET m == Micro(conn[c].pc, conn[c].args, conn[c].tmp)
       IN  /\ items' = m.items
           /\ tag_counter' = m.tag_counter
           /\ expire' = m.expire
           /\ woken' = (woken \/ m.woke)
           /\ conn' = [conn EXCEPT ![c] = Keep(m.pc, conn[c].cmd, conn[c].args, m.tmp)]
           /\ run' = IF m.pc \in Awaits THEN NoTask ELSE c
    /\ UNCHANGED wire
    /\ UNCHANGED <<stop, now, wpc, timer, panicked, hist, lastDrain, seq>>

\* connection_worker: write_all completes and the loop is back at parse
ConnWrite(c) ==
    /\ ~panicked
    /\ run = NoTask
    /\ conn[c].pc = "write"
    /\ conn' = [conn EXCEPT ![c] = Idle]
    /\ UNCHANGED wire
    /\ UNCHANGED <<items, tag_counter, stop, expire, now, wpc, timer, woken,
                   panicked, hist, lastDrain, run, seq>>

\* expire_worker: a poll of the or-future, on a wakeup or after a drain
WorkerPoll ==
    /\ ~panicked
    /\ IF run = NoTask THEN Runnable ELSE run = WorkerTask /\ wpc = "poll"
    /\ LET t == IF wpc = "waiting" THEN timer ELSE until_expire(expire)
           p == OrPoll(t, expire)
           whole == WorkerLoop(items, expire, t, <<>>)
       IN  /\ expire' = p.expire
           /\ timer' = t
           /\ wpc' = IF p.ready THEN "drain" ELSE "waiting"
           /\ run' = IF p.ready THEN WorkerTask ELSE NoTask
           /\ seq' = IF run = NoTask
                     THEN [items |-> whole.items, tag_counter |-> tag_counter,
                           expire |-> whole.expire]
                     ELSE seq
           /\ hist' = IF run = NoTask THEN Live(hist, whole.items) ELSE hist
    /\ woken' = FALSE
    /\ UNCHANGED wire
    /\ UNCHANGED <<items, tag_counter, stop, now, panicked, lastDrain, conn>>

\* expire_worker: one turn of the while loop, or its exit
WorkerPop ==
    /\ ~panicked
    /\ run = WorkerTask
    /\ wpc = "drain"
    /\ IF CanPop(expire, now)
       THEN /\ items' = IF Matches(items, peek(expire.items))
                        THEN Remove(items, peek(expire.items).key) ELSE items
            /\ expire' = try_pop(expire)
            /\ UNCHANGED <<wpc, run>>
       ELSE /\ wpc' = IF stop THEN "done" ELSE "poll"
            /\ run' = IF stop THEN NoTask ELSE WorkerTask
            /\ UNCHANGED <<items, expire>>
    /\ UNCHANGED wire
    /\ UNCHANGED <<tag_counter, stop, now, timer, woken, panicked, hist,
                   lastDrain, conn, seq>>

\* the positions of a connection worker inside the scope of a handler's
\* `let mut state = state.borrow_mut()`; do_del's borrow_mut is a temporary
\* of its if-let and is dropped before the next turn of the loop, the
\* borrow() of do_expire is dropped before the addition that can panic
Borrowing ==
    {"set_insert", "set_count", "expire_tag", "expire_count", "expire_push",
     "persist_tag", "persist_count", "rename_remove", "rename_push",
     "rename_insert"}

\* expire_worker: the RefMut of the loop body lives from the end of the await
\* to the end of the body; the borrows of until_expire and of
\* UpdateFuture::poll end inside the poll
WorkerBorrowing == {"drain"}

\* the clock, read as standing still within one poll of a task
TaskTick == run = NoTask /\ Tick

TaskNext ==
    \/ \E c \in Conns : ConnParse(c)
    \/ \E c \in Conns : ConnStep(c)
    \/ \E c \in Conns : ConnWrite(c)
    \/ WorkerPoll
    \/ WorkerPop
    \/ TaskTick

TaskSpec == Init /\ [][TaskNext]_vars

TypeOK ==
    /\ DOMAIN items \subseteq Keys
    /\ tag_counter \in 0..MaxTag
    /\ now \in 0..MaxTime
    /\ wpc \in {"init", "waiting", "done", "poll", "drain"}
    /\ run \in Conns \cup {NoTask, WorkerTask}

\* ---------------------------------------------------------------- claims
Popped == {lastDrain[i] : i \in 1..Len(lastDrain)}
Tag(k) == items[k].tag
Pending(k) == Present(k) /\ HasExpiry(expire, Tag(k))

\* C1: no two keys present in the keyspace carry the same generation tag.
C1_TagsUnique ==
    \A k \in DOMAIN items : \A j \in DOMAIN items : k # j => Tag(k) # Tag(j)

\* two live keys, one created by RPUSH, the other renamed while its expiry
\* was pending
C1_Witness ==
    \E k \in DOMAIN items : \E j \in DOMAIN items :
        /\ k # j
        /\ hist[Tag(k)].cmd = "RPUSH"
        /\ hist[Tag(j)].ren # {}

\* C2: a key removed by the expire worker is removed at or after the deadline
\* of the most recent EXPIRE applied to the incarnation that is removed.
C2_RemovedOnlyWhenDue ==
    \A e \in Popped : e.removed => (e.ttl # NoTime /\ e.ttl <= now)

\* the worker removed a key whose deadline lay after the start of the run
C2_Witness ==
    \E e \in Popped : e.removed /\ e.ttl >= 1 /\ e.ttl = e.time

\* helpers of the claims below
Hist(k) == hist[Tag(k)]
GetReply(k) == do_get(<<BulkString(k)>>).reply
Queued(k) == {r \in BagToSet(expire.items) : r.key = k}
\* the worker's step leaves the entry of k as it is
Kept(k) == k \in DOMAIN items' /\ items'[k] = items[k]
\* the step is a wakeup of the expire worker
WorkerStep == tag_counter' = tag_counter /\ now' = now /\ WorkerRun
\* a key whose deadline has passed is one the worker is about to wake up for
DueIsRunnable(k) == (Pending(k) /\ expire.expiries[Tag(k)] <= now) => Runnable

\* C3: a key given a new tag by PERSIST while its expiry was pending is not
\* removed by the worker when the earlier record fires: PERSIST keeps the
\* value and leaves the key without a pending expiry, the worker leaves the
\* key as it is, and GET replies the value.
C3_PersistKeepsKey ==
    [][ /\ \A k \in Keys :
              (Pending(k) /\ Command(do_persist(<<BulkString(k)>>)))
                  => /\ k \in DOMAIN items'
                     /\ items'[k].val = items[k].val
                     /\ ~HasExpiry(expire', items'[k].tag)
        /\ WorkerStep =>
              \A k \in DOMAIN items :
                  (Hist(k).cmd = "PERSIST" /\ Hist(k).ttl = NoTime)
                      => /\ Kept(k)
                         /\ items[k].val.type = "BulkString"
                                => GetReply(k)' = BulkString(items[k].val.str)
      ]_vars

\* the record pushed before PERSIST has fired, nothing is queued for the key
\* any more, the key is still there and GET replies its string
C3_Witness ==
    \E k \in DOMAIN items :
        /\ Hist(k).cmd = "PERSIST" /\ Hist(k).pend /\ Hist(k).ttl = NoTime
        /\ \E e \in Popped : e.key = k /\ ~e.removed
        /\ Queued(k) = {}
        /\ GetReply(k).type = "BulkString"

\* C4: EXPIRE on a key with a pending expiry replaces the deadline, earlier
\* or later: the key gets a new tag whose deadline is now + secs, the worker
\* leaves the key as it is while that deadline lies ahead (the old record is
\* skipped), removes it in the first wakeup after it, and is runnable as
\* soon as the deadline has passed.
C4_ReExpire ==
    /\ [][ /\ \A k \in Keys : \A a \in SecsArg :
                 (/\ Pending(k)
                  /\ ParseU64(a.str) # -1
                  /\ Command(do_expire(<<BulkString(k), a>>)))
                     => /\ k \in DOMAIN items'
                        /\ items'[k].val = items[k].val
                        /\ items'[k].tag # items[k].tag
                        /\ get_expiry(expire', items'[k].tag) = now + ParseU64(a.str)
                        /\ hist'[items'[k].tag].ttl = now + ParseU64(a.str)
           /\ WorkerStep =>
                 \A k \in DOMAIN items :
                     Hist(k).cmd = "EXPIRE"
                         => /\ Hist(k).ttl > now => Kept(k)
                            /\ Hist(k).ttl <= now => k \notin DOMAIN items'
         ]_vars
    /\ [](\A k \in DOMAIN items : Hist(k).cmd = "EXPIRE" => DueIsRunnable(k))

\* C5: a key overwritten by SET, or deleted and created again by SET or
\* RPUSH, while an expiry record of it is queued, is not removed by that
\* record: the worker leaves a key as it is whose incarnation began with SET
\* or RPUSH and had no EXPIRE since.
C5_OverwriteSurvives ==
    [][ /\ \A k \in Keys : \A v \in ValArg :
              Command(do_set(<<BulkString(k), v>>))
                  => /\ k \in DOMAIN items'
                     /\ items'[k].val = v
                     /\ ~HasExpiry(expire', items'[k].tag)
                     /\ \A r \in BagToSet(expire'.items) : r.id # items'[k].tag
        /\ WorkerStep =>
              \A k \in DOMAIN items :
                  (Hist(k).cmd \in {"SET", "RPUSH"} /\ Hist(k).ttl = NoTime)
                      => Kept(k)
      ]_vars

\* the record of the overwritten incarnation has fired and the key holds
\* the value of the SET
C5_Witness ==
    \E k \in DOMAIN items :
        /\ Hist(k).cmd = "SET" /\ Hist(k).pend /\ Hist(k).ttl = NoTime
        /\ \E e \in Popped : e.key = k /\ ~e.removed
        /\ Queued(k) = {}
        /\ items[k].val \in ValArg

\* C6: no key holds an Array of length zero, and the assertion of RPOP that
\* the list it found is non-empty never fails.
C6_NoEmptyList ==
    /\ \A k \in DOMAIN items :
           items[k].val.type = "Array" => Len(items[k].val.arr) > 0
    /\ ~panicked

\* the step is RENAME src dst
RenameStep(src, dst) ==
    tag_counter' = tag_counter /\ Command(do_rename(<<BulkString(src), BulkString(dst)>>))

\* C7 as stated: RENAME src dst of a key with a pending expiry leaves src
\* absent and dst with the value and tag of src, and the record still queued
\* under the name src removes nothing.
C7_RenameCarriesTtl ==
    /\ [][ \A src \in Keys : \A dst \in Keys :
              (Pending(src) /\ RenameStep(src, dst))
                  => /\ src \notin DOMAIN items'
                     /\ dst \in DOMAIN items'
                     /\ items'[dst] = items[src]
         ]_vars
    /\ [](\A e \in Popped : e.key \in e.ren => ~e.removed)

\* C7, amended: RENAME src dst of a key with a pending expiry of deadline d
\* leaves dst with the value and tag of src, src absent unless dst = src,
\* the deadline of the tag d and a record (dst, tag, d) queued; the worker
\* leaves the renamed entry as it is before d, removes it in the first
\* wakeup at or after d and is runnable once d has passed; the record still
\* queued under the name src removes nothing while the entry does not carry
\* the name src again (dst = src, or renamed back to src).
C7_RenameCarriesTtlAmended ==
    /\ [][ /\ \A src \in Keys : \A dst \in Keys :
                 (Pending(src) /\ RenameStep(src, dst))
                     => /\ dst \in DOMAIN items'
                        /\ items'[dst] = items[src]
                        /\ src # dst => src \notin DOMAIN items'
                        /\ get_expiry(expire', Tag(src)) = get_expiry(expire, Tag(src))
                        /\ Expiry(dst, Tag(src), get_expiry(expire, Tag(src)))
                               \in BagToSet(expire'.items)
           /\ WorkerStep =>
                 \A k \in DOMAIN items :
                     Hist(k).ren # {}
                         => /\ Hist(k).ttl > now => Kept(k)
                            /\ Hist(k).ttl <= now => k \notin DOMAIN items'
         ]_vars
    /\ [](\A k \in DOMAIN items : Hist(k).ren # {} => DueIsRunnable(k))
    /\ [](\A e \in Popped : (e.key \in e.ren /\ e.holder # {e.key}) => ~e.removed)

\* one wakeup popped the record queued under the old name, which removed
\* nothing, and the record queued under the new name, which removed the
\* entry; the old name was given to a new entry in the meantime, still there
C7_Witness ==
    \E e1 \in Popped : \E e2 \in Popped :
        /\ e1.id = e2.id /\ e1.key # e2.key
        /\ e1.key \in e1.ren /\ ~e1.removed
        /\ e2.removed /\ e2.ttl = e2.time
        /\ e1.key \in DOMAIN items

C9_ExpiresEventually ==
    \A k \in Keys : \A t \in 0..(MaxTag - 1) :
        (Pending(k) /\ Tag(k) = t) ~> ~(Present(k) /\ Tag(k) = t)

Built == Flatten([i \in 1..Len(frames) |-> serialize(frames[i].reply)])
IsPrefix(s, t) == Len(s) <= Len(t) /\ s = SubSeq(t, 1, Len(s))

\* the bytes written are the replies to the frames read, in that order,
\* each once; a frame that is no command is answered by an error
Ordered ==
    /\ IsPrefix(writer, Built)
    /\ lpc = "write" => (writer \o Unsent = Built /\ Unsent # <<>>)
    /\ lpc = "parse" => writer = Built
    /\ \A i \in 1..Len(frames) :
          /\ frames[i].kind # "Ok" => frames[i].reply = SimpleError(ERR)
          /\ (frames[i].kind = "Ok" /\ frames[i].item.type # "Array")
                => frames[i].reply = SimpleError(UnknownCommand)

\* C11: on one connection the i-th reply written is the reply to the i-th
\* frame read (a command or a parse error), one reply is written per frame,
\* and the reply to a frame is completely written before the next frame is
\* dispatched.
C11_InOrder ==
    [][/\ Ordered'
       /\ Len(frames') > Len(frames)
             => (writer = Built /\ Len(frames') = Len(frames) + 1)]_vars

\* a command and a malformed line were read, and both replies are written
C11_Witness ==
    /\ Len(frames) = 2
    /\ frames[1].kind = "Ok" /\ frames[1].reply = SimpleString(OK)
    /\ frames[2].kind = "Invalid"
    /\ lpc = "parse"
    /\ writer = serialize(SimpleString(OK)) \o serialize(SimpleError(ERR))

\* the fields of State
State == <<items, tag_counter, stop, expire>>

\* a step in which parse returns
Returns == lpc = "parse" /\ (lpc' # "parse" \/ frames' # frames)

\* C12: when parse reports Incomplete or Invalid the connection worker
\* writes the Simple-Error ERR, leaves the shared state unchanged and goes on
\* to parse the next frame on the same connection; only an I/O error from
\* reading or writing makes the connection worker exit.
C12_ParseErrorGoesOn ==
    [][/\ (Returns /\ ret'.kind \in {"Incomplete", "Invalid"})
             => /\ UNCHANGED State
                /\ lpc' = "write"
                /\ out_buffer' = serialize(SimpleError(ERR)) /\ sent' = 0
       /\ (lpc = "write" /\ lpc' # "write")
             => \/ lpc' = "parse" /\ writer' = writer \o Unsent /\ reader' = reader
                \/ WireWriteErr
       /\ (lpc # "exit" /\ lpc' = "exit")
             => \/ Returns /\ ret'.kind = "IoError"
                \/ WireWriteErr]_vars

\* a line too short to be a frame was answered by ERR, and the command
\* after it was carried out
C12_Witness ==
    /\ Len(frames) = 2
    /\ frames[1].kind = "Incomplete"
    /\ frames[2].kind = "Ok" /\ frames[2].reply = SimpleString(OK)
    /\ Present(<<"a">>)
    /\ writer = serialize(SimpleError(ERR)) \o serialize(SimpleString(OK))

\* C13: after the peer closes the connection (the reader reports end of
\* stream) the connection worker terminates: it parses no further frame and
\* writes no further reply.
C13_StopsAtEof ==
    [][reader.eof => (writer' = writer /\ frames' = frames)]_vars

\* the or-future of the worker is ready: a poll of the worker is a wakeup
Wakes == OrPoll(IF wpc = "init" THEN until_expire(expire) ELSE timer, expire).ready

\* C14: once the stop flag is set, the expire worker exits at the end of its
\* next wakeup, after popping the records due at that wakeup, and afterwards
\* removes no key; while the flag is not set the worker does not exit.
C14_StopsWhenTold ==
    [][/\ (stop /\ Wakes /\ WorkerStep)
             => /\ wpc' = "done"
                /\ ~CanPop(expire', now)
                /\ \A k \in DOMAIN items :
                      (Pending(k) /\ expire.expiries[Tag(k)] <= now)
                          => k \notin DOMAIN items'
       /\ (stop /\ ~Wakes /\ WorkerStep) => wpc' = "waiting"
       /\ wpc = "done"
             => (wpc' = "done" /\ ~WorkerStep /\ \A e \in Popped' : ~e.removed)
       /\ ~stop' => wpc' # "done"]_vars

\* the flag was set while a deadline lay ahead; the worker woke up for the
\* deadline, removed the key and exited
C14_Witness ==
    /\ stop
    /\ wpc = "done"
    /\ \E e \in Popped : e.removed /\ e.time >= 1

\* C15: round trip: for every Value (Simple-String, Simple-Error, Integer,
\* Bulk-String, Array of Values, Null, Boolean, with strings over any bytes),
\* parsing the bytes produced by serialize yields a Value equal to the
\* original and consumes exactly those bytes.
C15_RoundTrip ==
    (given.bad = <<>> /\ Len(frames) >= 1)
        => /\ frames[1].kind = "Ok"
           /\ frames[1].item = given.v
           /\ frames[1].rest = given.after

\* the i-th call of parse when the bytes arrive in one read
RECURSIVE InOneRead(_, _)
InOneRead(stream, i) ==
    LET r == parse(ItemParserNew, stream)
    IN  IF i = 1 THEN r ELSE InOneRead(r.stream, i - 1)

\* C16: for every well-formed input and every way of splitting it into
\* chunks delivered by separate reads (one byte per read, splits inside a
\* CRLF or inside an array), parse returns the same Value as when the whole
\* input is delivered in one read, and leaves the same bytes unread.
C16_ChunksAgree ==
    given.bad = <<>> =>
        \A i \in 1..Len(frames) :
            LET r == InOneRead(Stream(<<given.bytes>>, "eof"), i)
            IN  /\ frames[i].kind = r.kind
                /\ frames[i].item = r.item
                /\ frames[i].rest = Flatten(r.stream.chunks)

\* a nested array delivered one byte per read was returned whole
C16_Witness ==
    /\ given.bad = <<>>
    /\ given.v = Array(<<Array(<<Array(<<>>), BulkString(<<"a">>)>>), Integer(7)>>)
    /\ given.cuts = 1..(Len(given.bytes) - 1)
    /\ Len(reader.chunks) = Len(given.after)
    /\ Len(frames) = 1
    /\ frames[1].kind = "Ok" /\ frames[1].item = given.v

\* the stack st holds the open arrays of v, outermost first: each entry
\* has the elements read so far, in wire order, and counts the ones to come
RECURSIVE Opens(_, _)
Opens(st, v) ==
    /\ v.type = "Array"
    /\ st # <<>>
    /\ IsPrefix(Head(st).items, v.arr)
    /\ Head(st).remaining + Len(Head(st).items) = Len(v.arr)
    /\ Tail(st) # <<>>
          => (Head(st).remaining > 0 /\ Opens(Tail(st), v.arr[Len(Head(st).items) + 1]))

\* C17: for every well-formed array frame, with any element counts and any
\* nesting depth, parse returns only when the outermost array is complete,
\* the result has the declared number of elements in wire order with each
\* nested array folded in as one element of its parent, and the stack of
\* the parser holds exactly the arrays that are still open.
C17_ArraysFold ==
    (given.bad = <<>> /\ given.v.type = "Array")
        => /\ (frames = <<>> /\ ret.kind = "Running") => Opens(parser.stack, given.v)
           /\ Len(frames) >= 1
                 => /\ frames[1].kind = "Ok"
                    /\ frames[1].item = given.v
                    /\ frames[1].rest = given.after

\* C18: after a call of parse ended with Incomplete or Invalid, also inside
\* a nested array, the next call starts with an empty stack and an empty
\* buffer: nothing collected by the failed call appears in a later result,
\* and a well-formed frame that starts at the next unread line is returned
\* unchanged.
C18_FreshStart ==
    (given.bad # <<>> /\ Len(frames) >= 1)
        => /\ frames[1].kind \in {"Incomplete", "Invalid"}
           /\ frames[1].rest = serialize(given.v) \o given.after
           /\ (Len(frames) = 1 /\ ret.kind = "Running")
                 => Opens(parser.stack, given.v)
           /\ Len(frames) >= 2
                 => /\ frames[2].kind = "Ok"
                    /\ frames[2].item = given.v
                    /\ frames[2].rest = given.after

\* the keys that the arguments name
Named(args) == {args[i].str : i \in 1..Len(args)}

\* C19: DEL k1..kn with bulk-string arguments leaves none of k1..kn in the
\* keyspace, leaves every other key with its value and tag, and replies the
\* Integer number of distinct keys among k1..kn that were present before
\* the command.
C19_DelRemoves ==
    [][\A args \in SeqsUpTo(KeyArg, 3) :
           Logged(<<"d", "e", "l">>, args, do_del(args))
               => /\ \A k \in Named(args) : k \notin DOMAIN items'
                  /\ \A k \in DOMAIN items \ Named(args) :
                        k \in DOMAIN items' /\ items'[k] = items[k]
                  /\ frames'[1].reply = Integer(Cardinality(Named(args) \cap DOMAIN items))
      ]_vars

\* DEL a a was the last command: it replied 1, a is gone and b is there
C19_Witness ==
    /\ frames = <<Frame("Ok", Array(<<BulkString(<<"d", "e", "l">>), BulkString(<<"a">>),
                                       BulkString(<<"a">>)>>), Integer(1))>>
    /\ ~Present(<<"a">>)
    /\ Present(<<"b">>)

\* the list stored under k, empty when k is absent
ListOf(its, k) == IF k \in DOMAIN its THEN its[k].val.arr ELSE <<>>
IsList(k) == Present(k) /\ items[k].val.type = "Array"
Reversed(s) == [i \in 1..Len(s) |-> s[Len(s) + 1 - i]]

\* RPOP on the list under k took its last n elements and replied with what
\* the reply is to be
PopsTail(k, n, reply) ==
    LET list == ListOf(items, k)
    IN  /\ ~panicked'
        /\ frames'[1].reply = reply
        /\ ListOf(items', k) = SubSeq(list, 1, Len(list) - n)
        /\ k \in DOMAIN items' <=> n < Len(list)
        /\ k \in DOMAIN items' => items'[k].tag = items[k].tag

\* C20: a list key behaves as a sequence mutated at its tail: RPUSH appends
\* its values in argument order and replies the new length; RPOP without
\* count replies the last element; RPOP with count n replies an Array of
\* min(n, length) elements, tail first; the elements left are the untouched
\* prefix, and the key is removed exactly when the list became empty.
C20_ListAtTail ==
    [][\A k \in Keys :
          /\ \A vs \in SeqsUpTo(ValArg, 2) :
                (/\ IsList(k) \/ ~Present(k)
                 /\ Logged(<<"r", "p", "u", "s", "h">>, <<BulkString(k)>> \o vs,
                           do_rpush(<<BulkString(k)>> \o vs)))
                    => /\ ListOf(items', k) = ListOf(items, k) \o vs
                       /\ frames'[1].reply = Integer(Len(ListOf(items, k)) + Len(vs))
          /\ (/\ IsList(k)
              /\ Logged(<<"r", "p", "o", "p">>, <<BulkString(k)>>,
                        do_rpop(<<BulkString(k)>>)))
                 => /\ ListOf(items, k) # <<>>
                    /\ PopsTail(k, 1, Last(ListOf(items, k)))
          /\ \A c \in CountArgs :
                (/\ IsList(k)
                 /\ PopCount(<<BulkString(k), c>>) >= 0
                 /\ Logged(<<"r", "p", "o", "p">>, <<BulkString(k), c>>,
                           do_rpop(<<BulkString(k), c>>)))
                    => LET list == ListOf(items, k)
                           n == Min(PopCount(<<BulkString(k), c>>), Len(list))
                       IN  PopsTail(k, n,
                                    Array(Reversed(SubSeq(list, Len(list) - n + 1,
                                                          Len(list)))))
      ]_vars

\* the name of a command as it is kept in frames
RPUSH == <<"r", "p", "u", "s", "h">>
\* the step leaves name as the last command
Said(name) == frames' # <<>> /\ frames'[1].item = BulkString(name)
\* the last command was name and its reply was reply
LastWas(name, reply) == frames = <<Frame("Ok", BulkString(name), reply)>>

\* C21: RPUSH on a key that holds a value that is not an Array replies the
\* Simple-Error WRONGTYPE and leaves that key's value and tag, every other
\* key and the expiration index unchanged.
C21_RpushWrongType ==
    [][\A args \in RpushArgs :
          (/\ IsBulk(args, 1)
           /\ Present(args[1].str)
           /\ items[args[1].str].val.type # "Array"
           /\ Said(RPUSH)
           /\ Replied(RPUSH, args, do_rpush(args)))
              => /\ frames'[1].reply = SimpleError(WrongType)
                 /\ items' = items
                 /\ expire' = expire
      ]_vars

\* RPUSH was refused on a string that has a pending expiry
C21_Witness ==
    /\ LastWas(RPUSH, SimpleError(WrongType))
    /\ \E k \in DOMAIN items : Pending(k) /\ items[k].val.type = "BulkString"

EXPIRE == <<"e", "x", "p", "i", "r", "e">>
PERSIST == <<"p", "e", "r", "s", "i", "s", "t">>
RENAME == <<"r", "e", "n", "a", "m", "e">>

\* the step replies reply and leaves the keyspace, the tag counter, the
\* heap, the tag-to-deadline map and the updated flag as they are, and does
\* not wake the expire worker
RepliesOnly(reply) ==
    /\ frames'[1].reply = reply
    /\ items' = items
    /\ tag_counter' = tag_counter
    /\ expire'.items = expire.items
    /\ expire'.expiries = expire.expiries
    /\ expire'.updated = expire.updated
    /\ woken' = woken

\* C22: on an absent key EXPIRE and PERSIST reply Integer 0 and RENAME
\* (absent source) replies the Simple-Error no such key; in all three cases
\* the keyspace, the tag counter, the heap, the tag-to-deadline map and the
\* updated flag are unchanged and the expire worker is not woken.
C22_AbsentKey ==
    [][/\ Said(EXPIRE) =>
             \A k \in KeyArg : \A s \in SecsArg :
                 (~Present(k.str) /\ Replied(EXPIRE, <<k, s>>, do_expire(<<k, s>>)))
                     => RepliesOnly(Integer(0))
       /\ Said(PERSIST) =>
             \A k \in KeyArg :
                 (~Present(k.str) /\ Replied(PERSIST, <<k>>, do_persist(<<k>>)))
                     => RepliesOnly(Integer(0))
       /\ Said(RENAME) =>
             \A k \in KeyArg : \A dst \in KeyArg :
                 (/\ ~Present(k.str)
                  /\ Replied(RENAME, <<k, dst>>, do_rename(<<k, dst>>)))
                     => RepliesOnly(SimpleError(NoSuchKey))
      ]_vars

\* EXPIRE replied 0 for an absent key while the other key has a pending
\* expiry for which the worker waits, and the worker was not woken
C22_Witness ==
    /\ LastWas(EXPIRE, Integer(0))
    /\ Cardinality(DOMAIN items) = 1
    /\ \E k \in DOMAIN items : Pending(k)
    /\ wpc = "waiting" /\ timer # Never /\ ~woken /\ ~expire.updated

\* the step leaves the heap and the tag-to-deadline map as they are
HeapSame == expire'.items = expire.items /\ expire'.expiries = expire.expiries
\* the step leaves every record in the heap and adds at most one
OnlyAdds ==
    /\ expire.items \sqsubseteq expire'.items
    /\ BagCardinality(expire'.items) <= BagCardinality(expire.items) + 1

\* C23: heap records are removed only by the expire worker's try_pop: PING,
\* GET, SET, DEL, PERSIST, RPUSH and RPOP leave the heap and the
\* tag-to-deadline map exactly unchanged, and EXPIRE and RENAME only add a
\* record (they never remove or alter an existing one).
C23_OnlyWorkerPops ==
    [][/\ HeapSame
          \/ /\ \A args \in PingArgs : ~Command(do_ping(args))
             /\ \A args \in GetArgs : ~Command(do_get(args))
             /\ \A args \in SetArgs : ~Command(do_set(args))
             /\ \A args \in DelArgs : ~Command(do_del(args))
             /\ \A args \in PersistArgs : ~Command(do_persist(args))
             /\ \A args \in RpushArgs : ~Command(do_rpush(args))
             /\ \A args \in RpopArgs : ~Command(do_rpop(args))
       /\ OnlyAdds
          \/ /\ \A args \in ExpireArgs : ~Command(do_expire(args))
             /\ \A args \in RenameArgs : ~Command(do_rename(args))
       /\ (expire.items \sqsubseteq expire'.items) \/ WorkerStep
      ]_vars

\* RENAME added a second record of the tag, DEL removed the renamed key, and
\* both records are still in the heap with the deadline of the tag
C23_Witness ==
    /\ DOMAIN items = {}
    /\ \E r, q \in BagToSet(expire.items) :
          /\ r.id = q.id /\ r.key # q.key
          /\ get_expiry(expire, r.id) = r.time
    /\ BagCardinality(expire.items) = 2

RPOP == <<"r", "p", "o", "p">>

\* the step leaves k its tag and the deadline of the tag
TagKept(k) ==
    /\ k \in DOMAIN items'
    /\ items'[k].tag = items[k].tag
    /\ get_expiry(expire', items'[k].tag) = get_expiry(expire, items[k].tag)
\* the tag k has after the step is the tag of no key, of no record and of
\* no deadline before the step
TagFresh(k) ==
    /\ k \in DOMAIN items'
    /\ \A j \in DOMAIN items : items[j].tag # items'[k].tag
    /\ \A r \in BagToSet(expire.items) : r.id # items'[k].tag
    /\ ~HasExpiry(expire, items'[k].tag)
    /\ ~HasExpiry(expire', items'[k].tag)
Due(k) == Pending(k) /\ expire.expiries[Tag(k)] <= now

\* C24: RPUSH onto an existing list and RPOP that leaves the list non-empty
\* keep the key's tag, so a pending expiry of the list still removes it at
\* its deadline; a list emptied by RPOP and re-created by RPUSH gets a fresh
\* tag and is not removed by the expiry record of the earlier incarnation.
C24_ListKeepsTag ==
    [][/\ Said(RPUSH) =>
            \A args \in RpushArgs :
                (IsBulk(args, 1) /\ Tailed(RPUSH, args, do_rpush(args)))
                    => IF Present(args[1].str)
                       THEN IsList(args[1].str) /\ TagKept(args[1].str)
                       ELSE TagFresh(args[1].str)
       /\ Said(RPOP) =>
            \A args \in RpopArgs :
                (IsBulk(args, 1) /\ IsList(args[1].str))
                    => \/ TagKept(args[1].str)
                       \/ ListOf(items', args[1].str) = <<>>
                       \/ ~Tailed(RPOP, args, do_rpop(args))
       /\ \A k \in DOMAIN items :
             IsList(k) =>
                 \/ IF Due(k) THEN k \notin DOMAIN items' ELSE Kept(k)
                 \/ ~WorkerStep
       /\ \A k \in Keys : (IsList(k) => DueIsRunnable(k))'
      ]_vars

\* the only list ever created got a deadline, RPOP then took its last
\* element and left it non-empty, and the worker removed it at the deadline
C24_Witness ==
    /\ tag_counter = 1
    /\ LastWas(RPOP, BulkString(<<"w">>))
    /\ Len(lastDrain) = 1
    /\ lastDrain[1].removed /\ lastDrain[1].time = 1 /\ now = 1

GET == <<"g", "e", "t">>

\* the step is GET k: it changes no part of the shared state, replies Null
\* when k is absent, an error when k holds a list, and when k holds a
\* string the value that the history h has for k
GetReads(k, h) ==
    Noted(GET, <<k>>, do_get(<<k>>), given)
        => /\ UNCHANGED <<items, tag_counter, stop, expire, woken>>
           /\ CASE ~Present(k.str) -> frames'[1].reply = Null
                [] Present(k.str) /\ items[k.str].val.type = "Array" ->
                      frames'[1].reply = SimpleError(NotAString)
                [] OTHER ->
                      k.str \in DOMAIN h /\ frames'[1].reply = h[k.str]

\* C25 as stated: GET k replies the Bulk-String stored by the most recent
\* SET k when k currently holds a String, Null when k is absent, and a
\* Simple-Error when k holds an Array; GET changes no part of the shared
\* state.
C25_GetReads ==
    [][\A k \in KeyArg : GetReads(k, given.set)]_vars

\* C25, amended: GET k replies, when k currently holds a String, the
\* Bulk-String most recently stored under k by SET k or carried to k by
\* RENAME src k; Null when k is absent (never set, deleted, renamed away or
\* expired by the worker); a Simple-Error when k holds an Array; GET changes
\* no part of the shared state.
C25_GetReadsAmended ==
    [][\A k \in KeyArg : GetReads(k, given.wrote)]_vars

\* GET replied the string that RENAME carried to the key, which is not the
\* string of the most recent SET of that key, and the source is absent
C25_Witness ==
    /\ Cardinality(DOMAIN items) = 1
    /\ \E k \in DOMAIN items :
          /\ k \in DOMAIN given.set
          /\ given.set[k] # items[k].val
          /\ given.wrote[k] = items[k].val
          /\ LastWas(GET, items[k].val)

\* the keys that the records popped before the i-th of the log d removed
RemovedBefore(d, i) == {d[j].key : j \in {n \in 1..(i - 1) : d[n].removed}}

\* C26: for each record (key, tag, deadline) the expire worker pops, the
\* key is removed exactly when it is present and its current tag equals the
\* record's tag; when the key is absent or carries another tag the keyspace
\* is unchanged; in both cases no other key is affected.
C26_PopRemovesMatching ==
    [][(lastDrain' # <<>> /\ WorkerStep) =>
          LET d == lastDrain'
          IN  /\ \A i \in 1..Len(d) :
                    /\ Expiry(d[i].key, d[i].id, d[i].time) \in BagToSet(expire.items)
                    /\ d[i].removed <=>
                          /\ d[i].key \in DOMAIN items \ RemovedBefore(d, i)
                          /\ items[d[i].key].tag = d[i].id
              /\ items' = [k \in DOMAIN items \ RemovedBefore(d, Len(d) + 1)
                              |-> items[k]]
      ]_vars

\* one wakeup popped a record of a key that carries another tag and is
\* still there, and a record that removed its key
C26_Witness ==
    \E e1 \in Popped : \E e2 \in Popped :
        /\ ~e1.removed
        /\ e1.key \in DOMAIN items /\ Tag(e1.key) # e1.id
        /\ e2.removed
        /\ e2.key \notin DOMAIN items

\* the tags of the records in the log d
PoppedTags(d) == {d[i].id : i \in 1..Len(d)}

\* C27: in one wakeup the expire worker pops records in non-decreasing
\* deadline order, pops every record whose deadline is at or before now and
\* none whose deadline is after now, and removes each popped record's tag from
\* the tag-to-deadline map; when the drain ends the heap is empty or its head
\* deadline lies in the future.
C27_DrainInOrder ==
    [][WorkerStep =>
          LET d == lastDrain'
              h == expire.items
              h2 == expire'.items
          IN  /\ \A i \in 1..Len(d) : \A j \in i..Len(d) : d[i].time <= d[j].time
              /\ BagToSet(h2) \subseteq BagToSet(h)
              /\ \A q \in BagToSet(h) :
                    CopiesIn(q, h2) = IF q.time <= now THEN 0 ELSE CopiesIn(q, h)
              /\ Len(d) = BagCardinality(h) - BagCardinality(h2)
              /\ \A i \in 1..Len(d) :
                    Expiry(d[i].key, d[i].id, d[i].time) \in BagToSet(h) \ BagToSet(h2)
              /\ expire'.expiries =
                    [t \in DOMAIN expire.expiries \ PoppedTags(d)
                       |-> expire.expiries[t]]
              /\ \/ BagToSet(h2) = {}
                 \/ \E r \in BagToSet(h2) :
                       /\ \A q \in BagToSet(h2) : r.time <= q.time
                       /\ r.time > now
      ]_vars

\* one wakeup popped two records, the earlier deadline first, the later one
\* being the present instant
C27_Witness ==
    /\ Len(lastDrain) = 2
    /\ lastDrain[1].time < lastDrain[2].time
    /\ lastDrain[2].time = now
    /\ BagToSet(expire.items) = {}
    /\ DOMAIN expire.expiries = {}

\* the step pushes one record on the heap
Pushes == BagCardinality(expire'.items) = BagCardinality(expire.items) + 1

\* the record the step pushed
Pushed ==
    CHOOSE r \in BagToSet(expire'.items) :
        CopiesIn(r, expire'.items) = CopiesIn(r, expire.items) + 1

\* the heap was empty, or the deadline is strictly before the previous head
Nearer(time) == \A q \in BagToSet(expire.items) : time < q.time

\* C28: push(key, tag, deadline) always adds the record to the heap and sets
\* map[tag] = deadline; it sets updated to true and takes and invokes the
\* stored waker (leaving the slot empty) exactly when the heap was empty or the
\* new deadline is strictly earlier than the previous head; for an equal or
\* later deadline the updated flag and the waker slot are unchanged.
C28_PushWakesWhenNearer ==
    [][Pushes =>
          /\ expire'.items = expire.items (+) SetToBag({Pushed})
          /\ DOMAIN expire'.expiries = DOMAIN expire.expiries \cup {Pushed.id}
          /\ \A t \in DOMAIN expire'.expiries :
                expire'.expiries[t] = IF t = Pushed.id THEN Pushed.time
                                      ELSE expire.expiries[t]
          /\ IF Nearer(Pushed.time)
             THEN /\ expire'.updated
                  /\ ~expire'.waker
                  /\ woken' = (woken \/ expire.waker)
             ELSE /\ expire'.updated = expire.updated
                  /\ expire'.waker = expire.waker
                  /\ woken' = woken
      ]_vars

\* the worker waits on the timer of the later of two records: the earlier one
\* was pushed after it suspended, took its waker and woke it
C28_Witness ==
    /\ wpc = "waiting"
    /\ ~expire.waker /\ expire.updated /\ woken
    /\ BagCardinality(expire.items) = 2
    /\ timer # Never
    /\ \E r \in BagToSet(expire.items) : r.time < timer
    /\ \E r \in BagToSet(expire.items) : r.time = timer

\* the worker is suspended in the await of expire_worker
Suspended == wpc = "waiting"

\* C29: no nearer deadline is missed: whenever the expire worker is suspended
\* in its wait and the updated flag is false, the timer it waits on is set to
\* the deadline of the current heap head (a never-firing timer exactly when
\* the heap is empty); and whenever updated is true while the worker is
\* suspended, the worker has been woken or will return from its wait at its
\* next poll (here: both).
C29_NoDeadlineMissed ==
    Suspended =>
        IF ~expire.updated
        THEN /\ timer = Never <=> BagToSet(expire.items) = {}
             /\ \A q \in BagToSet(expire.items) : timer <= q.time
             /\ BagToSet(expire.items) # {} =>
                    \E r \in BagToSet(expire.items) : r.time = timer
        ELSE /\ woken
             /\ OrPoll(timer, expire).ready

\* the worker waits on a never-firing timer, a first record was pushed and
\* woke it
C29_Witness ==
    /\ Suspended
    /\ timer = Never
    /\ BagToSet(expire.items) # {}
    /\ expire.updated /\ woken /\ ~expire.waker

\* the tasks that hold a borrow of the shared state
Holders ==
    {c \in Conns : conn[c].pc \in Borrowing}
        \cup (IF wpc \in WorkerBorrowing THEN {WorkerTask} ELSE {})

\* the task that takes the step, NoTask for a step of the clock
Actor ==
    IF \E c \in Conns : conn'[c] # conn[c]
    THEN CHOOSE c \in Conns : conn'[c] # conn[c]
    ELSE IF now' # now THEN NoTask ELSE WorkerTask

\* the tasks suspended at an await: every task but the one being polled
Parked == (Conns \cup {WorkerTask}) \ {run}

C31_ExpireAnySecs ==
    [][Said(EXPIRE) =>
          \A k \in KeyArg : \A s \in SecsArg :
              (/\ Present(k.str)
               /\ ParsesU64(s.str)
               /\ Replied(EXPIRE, <<k, s>>, do_expire(<<k, s>>)))
                  => /\ ~panicked'
                     /\ frames'[1].reply = Integer(1)
                     /\ Present(k.str)'
                     /\ get_expiry(expire', items'[k.str].tag)
                            = now + ParseU64(s.str)
      ]_vars

\* the heap holds a record of key k under its tag with the deadline the map
\* gives the tag, and no record of that tag with another deadline
HasRecord(k) ==
    LET t == items[k].tag
    IN  /\ Expiry(k, t, expire.expiries[t]) \in BagToSet(expire.items)
        /\ \A q \in BagToSet(expire.items) :
               q.id = t => q.time = expire.expiries[t]

\* C32: between any two task steps, for every key k present in the keyspace
\* whose tag t is in the tag-to-deadline map, the heap holds a record
\* (k, t, map[t]), and every heap record carrying tag t has that same
\* deadline; so a key that commands report as having a pending expiry always
\* has a queued record under its current name.
C32_PendingIsQueued ==
    \A k \in DOMAIN items :
        items[k].tag \in DOMAIN expire.expiries => HasRecord(k)

\* a key with a pending expiry was renamed: the heap holds a record under its
\* old name and one under its present name, both with the deadline of its tag
C32_Witness ==
    \E k \in DOMAIN items : \E q \in BagToSet(expire.items) :
        /\ items[k].tag \in DOMAIN expire.expiries
        /\ q.id = items[k].tag
        /\ q.key # k
        /\ q.key \notin DOMAIN items
        /\ HasRecord(k)

\* the step is the command whose handler leaves res, refused for its
\* arguments
Refused(res) == res.reply = SimpleError(InvalidArguments) /\ Command(res)

\* the step is one of the seven commands other than DEL, refused
RefusedOther ==
    \/ \E args \in SetArgs : Refused(do_set(args))
    \/ \E args \in GetArgs : Refused(do_get(args))
    \/ \E args \in ExpireArgs : Refused(do_expire(args))
    \/ \E args \in PersistArgs : Refused(do_persist(args))
    \/ \E args \in RenameArgs : Refused(do_rename(args))
    \/ \E args \in RpushArgs : Refused(do_rpush(args))
    \/ \E args \in RpopArgs : Refused(do_rpop(args))

\* the step is a DEL, refused
RefusedDel == \E args \in DelArgs : Refused(do_del(args))

\* C33: a command that replies the Simple-Error invalid arguments leaves the
\* keyspace and the expiration index exactly as they were before the command;
\* this holds for SET, GET, EXPIRE, PERSIST, RENAME, RPUSH, RPOP and for DEL,
\* including a DEL whose non-bulk-string argument follows arguments that name
\* present keys.
C33_RefusedChangesNothing ==
    [][\/ items' = items /\ expire' = expire
       \/ ~(RefusedOther \/ RefusedDel)
      ]_vars

DEL == <<"d", "e", "l">>
Zero == BulkString(<<"0">>)

\* the step removes key k
Removes(k) == k \in DOMAIN items /\ k \notin DOMAIN items'

\* the step is a wakeup of the worker in which a record of k removed k
Expires(k) == \E e \in {lastDrain'[i] : i \in 1..Len(lastDrain')} : e.key = k /\ e.removed

\* the step is a DEL that names k
Deletes(k) ==
    /\ Said(DEL)
    /\ \E args \in DelArgs :
          /\ \E i \in 1..Len(args) : args[i] = BulkString(k)
          /\ Replied(DEL, args, do_del(args))

\* C34: keys are removed for expiry only by the expire worker: no command
\* handler removes or hides a key because its deadline has passed, so GET k
\* issued after the deadline but before the worker's drain still returns the
\* value, and EXPIRE k 0 replies Integer 1 and leaves k present until the
\* worker next runs.
C34_OnlyWorkerExpires ==
    [][/\ \A k \in Keys : Removes(k) => (Expires(k) \/ Deletes(k))
       /\ Said(GET) =>
             \A k \in KeyArg :
                 (Present(k.str) /\ Replied(GET, <<k>>, do_get(<<k>>)))
                     => /\ frames'[1].reply = items[k.str].val
                        /\ items' = items
                        /\ expire' = expire
       /\ Said(EXPIRE) =>
             \A k \in KeyArg :
                 (Present(k.str) /\ Replied(EXPIRE, <<k, Zero>>, do_expire(<<k, Zero>>)))
                     => /\ frames'[1].reply = Integer(1)
                        /\ Present(k.str)'
                        /\ items'[k.str].val = items[k.str].val
                        /\ get_expiry(expire', items'[k.str].tag) = now
      ]_vars

\* GET replied the value of a key whose deadline lies before the present
\* instant and whose record the worker has not popped yet
C34_Witness ==
    \E k \in DOMAIN items :
        /\ LastWas(GET, items[k].val)
        /\ Pending(k)
        /\ expire.expiries[Tag(k)] < now
        /\ Expiry(k, Tag(k), expire.expiries[Tag(k)]) \in BagToSet(expire.items)
        /\ Runnable

====
